---- MODULE Spec2Model ----
(***************************************************************************)
(* Kodi MCP gateway: the upstream JSON-RPC client (src/src/kodi_client.py) *)
(* and the tool dispatchers of its four front-ends (hybrid_server.py,      *)
(* server.py, pure_mcp_server.py, mcp_server.py).                          *)
(*                                                                         *)
(* One dispatch is followed from the dispatcher's entry to its return.     *)
(* Each upstream call (_make_request) is one or more HTTP attempts; the    *)
(* upstream chooses the outcome of every attempt.  The client operations   *)
(* and the dispatchers are operators over the log of the upstream calls    *)
(* completed so far: they either ask for the next call or finish.          *)
(* Python strings that the code inspects are sequences of one-character    *)
(* strings; messages the code only passes on are sequences of text parts.  *)
(***************************************************************************)
EXTENDS Integers, Sequences, FiniteSets, TLC

\* ------------------------------------------------------------------------
\* Bounds of the model
\* ------------------------------------------------------------------------
\* Longest active-player list the upstream answers with.
MaxPlayers == 2
\* Highest episode number a season listing holds.
MaxEpisodes == 2

\* ------------------------------------------------------------------------
\* Program constants
\* ------------------------------------------------------------------------
\* stop_after_attempt(3)
StopAfterAttempt == 3
\* wait_exponential(multiplier=1, min=1, max=10)
WaitMultiplier == 1
WaitMin == 1
WaitMax == 10
\* set_volume: 0 <= level <= 100
VolumeMin == 0
VolumeMax == 100
\* list_recent_movies / list_downloads defaults
DefaultRecentLimit == 20
DefaultDownloadsLimit == 50

Min2(a, b) == IF a < b THEN a ELSE b
Max2(a, b) == IF a > b THEN a ELSE b

RECURSIVE Pow2(_)
Pow2(n) == IF n <= 0 THEN 1 ELSE 2 * Pow2(n - 1)

\* ------------------------------------------------------------------------
\* Python strings as character sequences
\* ------------------------------------------------------------------------
Digits == << "0","1","2","3","4","5","6","7","8","9" >>

IsSpace(c) == c \in {" ", "\t", "\n"}

\* str.lower() on one character
LowerChar(c) ==
    LET upper == << "A","B","C","D","E","F","G","H","I","J","K","L","M",
                    "N","O","P","Q","R","S","T","U","V","W","X","Y","Z" >>
        lower == << "a","b","c","d","e","f","g","h","i","j","k","l","m",
                    "n","o","p","q","r","s","t","u","v","w","x","y","z" >>
    IN  IF \E i \in 1..26 : upper[i] = c
        THEN lower[CHOOSE i \in 1..26 : upper[i] = c]
        ELSE c

\* str.lower()
Lower(s) == SubSeq([i \in 1..Len(s) |-> LowerChar(s[i])], 1, Len(s))

\* strip() that removes nothing
MutStripNothing(s) == s

\* str.strip()
Strip(s) ==
    LET RECURSIVE LStrip(_)
        LStrip(t) == IF t # <<>> /\ IsSpace(Head(t)) THEN LStrip(Tail(t)) ELSE t
        RECURSIVE RStrip(_)
        RStrip(t) ==
            IF t # <<>> /\ IsSpace(t[Len(t)]) THEN RStrip(SubSeq(t, 1, Len(t) - 1)) ELSE t
    IN  RStrip(LStrip(s))


RECURSIVE DigitsToNat(_)
DigitsToNat(s) ==
    IF s = <<>> THEN 0
    ELSE 10 * DigitsToNat(SubSeq(s, 1, Len(s) - 1))
         + (CHOOSE i \in 1..10 : Digits[i] = s[Len(s)]) - 1

RECURSIVE NatToDigits(_)
NatToDigits(n) ==
    IF n < 10 THEN << Digits[n + 1] >>
    ELSE NatToDigits(n \div 10) \o << Digits[(n % 10) + 1] >>

\* str(n) for an integer
IntToStr(n) == IF n < 0 THEN << "-" >> \o NatToDigits(0 - n) ELSE NatToDigits(n)

\* ------------------------------------------------------------------------
\* JSON argument values: every value is one record shape
\* ------------------------------------------------------------------------
VAbsent == [t |-> "absent", i |-> 0, s |-> <<>>, b |-> FALSE]
VNone == [t |-> "none", i |-> 0, s |-> <<>>, b |-> FALSE]
VInt(n) == [t |-> "int", i |-> n, s |-> <<>>, b |-> FALSE]
VStr(s) == [t |-> "str", i |-> 0, s |-> s, b |-> FALSE]
VBool(b) == [t |-> "bool", i |-> 0, s |-> <<>>, b |-> b]

\* An exception: its class and str(e) as text parts
Exc(cls, parts) == [cls |-> cls, parts |-> parts]
NoExc == Exc("", <<>>)

\* The outcome of a Python conversion: a value or an exception
Conv(ok, i, s, b, exc) == [ok |-> ok, i |-> i, s |-> s, b |-> b, exc |-> exc]

\* int(x); a string is parsed as optional blanks, an optional sign and digits
PyInt(v) ==
    LET t == Strip(v.s)
        neg == t # <<>> /\ Head(t) = "-"
        u == IF t # <<>> /\ Head(t) \in {"-", "+"} THEN Tail(t) ELSE t
        literal == u # <<>> /\ \A k \in 1..Len(u) : \E i \in 1..10 : Digits[i] = u[k]
    IN  CASE v.t = "int"  -> Conv(TRUE, v.i, <<>>, FALSE, NoExc)
          [] v.t = "bool" -> Conv(TRUE, IF v.b THEN 1 ELSE 0, <<>>, FALSE, NoExc)
          [] v.t = "str"  ->
                IF literal
                THEN Conv(TRUE, IF neg THEN 0 - DigitsToNat(u) ELSE DigitsToNat(u), <<>>, FALSE, NoExc)
                ELSE Conv(FALSE, 0, <<>>, FALSE,
                          Exc("ValueError", << "invalid literal for int() with base 10" >>))
          [] OTHER        ->
                Conv(FALSE, 0, <<>>, FALSE,
                     Exc("TypeError", << "int() argument must be a string, a bytes-like object or a real number, not 'NoneType'" >>))

\* str(x)
PyStr(v) ==
    CASE v.t = "str"  -> v.s
      [] v.t = "int"  -> IntToStr(v.i)
      [] v.t = "bool" -> IF v.b THEN << "T","r","u","e" >> ELSE << "F","a","l","s","e" >>
      [] OTHER        -> << "N","o","n","e" >>

\* bool(x)
PyBool(v) ==
    CASE v.t = "bool" -> v.b
      [] v.t = "int"  -> v.i # 0
      [] v.t = "str"  -> v.s # <<>>
      [] OTHER        -> FALSE

\* ------------------------------------------------------------------------
\* KodiResponse
\* ------------------------------------------------------------------------
\* Optional[str]: None, or a text made of parts
ErrNone == [none |-> TRUE, parts |-> <<>>]
ErrMsg(parts) == [none |-> FALSE, parts |-> parts]
\* the text of f"{error}"
ErrText(e) == IF e.none THEN << "None" >> ELSE e.parts
\* a message that is a string with at least one character
ErrNonEmpty(e) == ~e.none /\ \E k \in 1..Len(e.parts) : e.parts[k] # ""

\* error_code: None, an upstream integer, or one of the client's names
CodeNone == [t |-> "none", i |-> 0, n |-> ""]
CodeInt(i) == [t |-> "int", i |-> i, n |-> ""]
CodeName(n) == [t |-> "name", i |-> 0, n |-> n]

KodiResponse(success, data, error, error_code) ==
    [success |-> success, data |-> data, error |-> error, error_code |-> error_code]

\* ------------------------------------------------------------------------
\* What the upstream answers
\* ------------------------------------------------------------------------
\* A JSON "result" value, one record shape for all the shapes the handlers read.
Data(kind, players, hasEpisodes, episodes, hasFiles, files, hasLimits, total, hasOther, text) ==
    [kind |-> kind, players |-> players, hasEpisodes |-> hasEpisodes,
     episodes |-> episodes, hasFiles |-> hasFiles, files |-> files,
     hasLimits |-> hasLimits, total |-> total, hasOther |-> hasOther, text |-> text]

DNull == Data("null", <<>>, FALSE, <<>>, FALSE, <<>>, FALSE, 0, FALSE, "")
DText(t) == Data("str", <<>>, FALSE, <<>>, FALSE, <<>>, FALSE, 0, FALSE, t)
DPlayers(l) == Data("list", l, FALSE, <<>>, FALSE, <<>>, FALSE, 0, FALSE, "")
DEpisodes(l) == Data("dict", <<>>, TRUE, l, FALSE, <<>>, TRUE, Len(l), FALSE, "")
DNoEpisodes == Data("dict", <<>>, FALSE, <<>>, FALSE, <<>>, TRUE, 0, FALSE, "")
DFiles(l) == Data("dict", <<>>, FALSE, <<>>, TRUE, l, TRUE, Len(l), FALSE, "")
DLimits(n) == Data("dict", <<>>, FALSE, <<>>, FALSE, <<>>, TRUE, n, FALSE, "")
DOther == Data("dict", <<>>, FALSE, <<>>, FALSE, <<>>, FALSE, 0, TRUE, "")

\* Python truth of a JSON value: None, [], {} and "" are false
Truthy(d) ==
    CASE d.kind = "null" -> FALSE
      [] d.kind = "list" -> d.players # <<>>
      [] d.kind = "dict" -> d.hasEpisodes \/ d.hasFiles \/ d.hasLimits \/ d.hasOther
      [] OTHER           -> d.text # ""

\* One entry of Player.GetActivePlayers
Player(hasId, playerid, type) == [hasId |-> hasId, playerid |-> playerid, type |-> type]
PlayerOf(id) == Player(TRUE, id, IF id = 0 THEN "audio" ELSE "video")

\* the lists of distinct players, of every order, up to MaxPlayers long
PlayerLists ==
    { l \in UNION { [1..n -> 0..(MaxPlayers - 1)] : n \in 0..MaxPlayers } :
        \A a, b \in 1..Len(l) : a # b => l[a] # l[b] }

\* One entry of VideoLibrary.GetEpisodes: its number and its library id
Episode(n) == [episode |-> n, hasId |-> TRUE, episodeid |-> 100 + n]
\* season listings: the episodes 1..n, and a listing of episode MaxEpisodes alone
EpisodeLists ==
    { [k \in 1..n |-> Episode(k)] : n \in 0..MaxEpisodes } \cup { << Episode(MaxEpisodes) >> }

\* The error member of a JSON-RPC answer
ErrObj(isDict, hasMsg, msg, hasCode, code) ==
    [isDict |-> isDict, hasMsg |-> hasMsg, msg |-> msg, hasCode |-> hasCode, code |-> code]
NoErrObj == ErrObj(FALSE, FALSE, "", FALSE, 0)
ErrObjs ==
    { ErrObj(TRUE, TRUE, "Method not found.", TRUE, -32601),
      ErrObj(TRUE, FALSE, "", TRUE, -32601),
      ErrObj(FALSE, FALSE, "", FALSE, 0) }

\* One HTTP attempt as the upstream decides it.
\*   net: "timeout" | "refused" | "other" (another transport fault) | "http"
\*   status200, jsonOk, bodyDict: the status line, whether the body parses, whether
\*   it is an object; hasError/err and result: the members of the object
Attempt(net, status200, jsonOk, bodyDict, hasError, err, result) ==
    [net |-> net, status200 |-> status200, jsonOk |-> jsonOk, bodyDict |-> bodyDict,
     hasError |-> hasError, err |-> err, result |-> result]

AttemptFault(net) == Attempt(net, FALSE, FALSE, FALSE, FALSE, NoErrObj, DNull)
AttemptNon200 == Attempt("http", FALSE, FALSE, FALSE, FALSE, NoErrObj, DNull)
AttemptBadJson == Attempt("http", TRUE, FALSE, FALSE, FALSE, NoErrObj, DNull)
AttemptNotObject == Attempt("http", TRUE, TRUE, FALSE, FALSE, NoErrObj, DNull)
AttemptError(e) == Attempt("http", TRUE, TRUE, TRUE, TRUE, e, DNull)
AttemptResult(d) == Attempt("http", TRUE, TRUE, TRUE, FALSE, NoErrObj, d)

\* ------------------------------------------------------------------------
\* KodiClient._make_request: one attempt, then tenacity's retry rule
\* ------------------------------------------------------------------------
\* What one pass through the body of _make_request ends with
Pass(kind, exc, resp) == [kind |-> kind, exc |-> exc, resp |-> resp]
NoResp == KodiResponse(FALSE, DNull, ErrNone, CodeNone)

\* The statements of the try block (lines 102-134): the exception they raise, or
\* the KodiResponse they return.
TryBody(o, method) ==
    CASE o.net = "timeout" -> Pass("raise", Exc("requests.Timeout", << "timed out" >>), NoResp)
      [] o.net = "refused" -> Pass("raise", Exc("requests.ConnectionError", << "connection refused" >>), NoResp)
      [] o.net = "other"   -> Pass("raise", Exc("requests.RequestException", << "transport fault" >>), NoResp)
      [] ~o.status200      -> Pass("raise", Exc("KodiConnectionError", << "Erreur HTTP " >>), NoResp)
      [] ~o.jsonOk         -> Pass("raise", Exc("json.JSONDecodeError", << "Expecting value" >>), NoResp)
      [] ~o.bodyDict       -> Pass("raise", Exc("AttributeError", << "object has no attribute 'get'" >>), NoResp)
      [] o.hasError /\ ~o.err.isDict ->
                              Pass("raise", Exc("AttributeError", << "object has no attribute 'get'" >>), NoResp)
      [] o.hasError        ->
            Pass("return", NoExc,
                 KodiResponse(FALSE, DNull,
                              IF o.err.hasMsg THEN ErrMsg(<< o.err.msg >>) ELSE ErrNone,
                              IF o.err.hasCode THEN CodeInt(o.err.code) ELSE CodeNone))
      [] OTHER             -> Pass("return", NoExc, KodiResponse(TRUE, o.result, ErrNone, CodeNone))

\* The except clauses (lines 136-154), in their order: the exception that leaves
\* _make_request for an exception raised in the try block.
ExceptClauses(e, method) ==
    CASE e.cls = "requests.Timeout" ->
            Exc("KodiConnectionError", << "Timeout lors de la requete ", method >>)
      [] e.cls = "requests.ConnectionError" ->
            Exc("KodiConnectionError", << "Impossible de se connecter a Kodi: " >> \o e.parts)
      [] e.cls = "json.JSONDecodeError" ->
            Exc("KodiAPIError", << "Reponse JSON invalide de Kodi: " >> \o e.parts)
      [] OTHER ->
            Exc("KodiAPIError", << "Erreur inattendue lors de la requete ", method, ": " >> \o e.parts)

\* One pass through _make_request's body
MutRequestBodyJson(o, method) ==
    LET t == TryBody(o, method)
    IN  IF t.kind # "raise" THEN t
        ELSE IF t.exc.cls = "json.JSONDecodeError"
             THEN Pass("raise", Exc("KodiConnectionError", t.exc.parts), NoResp)
             ELSE Pass("raise", ExceptClauses(t.exc, method), NoResp)

MutRequestBodyError(o, method) ==
    LET t == TryBody(o, method)
    IN  IF t.kind = "raise" THEN Pass("raise", ExceptClauses(t.exc, method), NoResp)
        ELSE IF ~t.resp.success
             THEN Pass("raise", Exc("KodiConnectionError", ErrText(t.resp.error)), NoResp)
             ELSE t

RequestBody(o, method) ==
    LET t == TryBody(o, method)
    IN  IF t.kind = "raise" THEN Pass("raise", ExceptClauses(t.exc, method), NoResp) ELSE t

\* retry_if_exception_type((requests.RequestException, KodiConnectionError))
RetryIfExceptionType(e) ==
    e.cls \in { "requests.Timeout", "requests.ConnectionError",
                "requests.RequestException", "KodiConnectionError" }

\* stop_after_attempt(3): the fixed count of the decorator, whatever is configured
MutStopConfigured(attempt_number, retry_attempts) == attempt_number >= retry_attempts

StopAfter(attempt_number, retry_attempts) == attempt_number >= StopAfterAttempt

\* wait_exponential(multiplier=1, min=1, max=10) after attempt attempt_number
WaitExponential(attempt_number) ==
    Max2(Max2(0, WaitMin), Min2(WaitMultiplier * Pow2(attempt_number - 1), WaitMax))

\* tenacity.RetryError, raised when the attempts are exhausted (reraise is off)
RetryError(last) == Exc("RetryError", << "RetryError[", last.cls, "]" >>)

\* What one completed _make_request call gave its caller
CallOut(st, exc, resp) == [st |-> st, exc |-> exc, resp |-> resp]

\* ------------------------------------------------------------------------
\* Client operations, over the log of the calls completed so far
\* ------------------------------------------------------------------------
\* The parameters of a JSON-RPC request that the operations choose
MArg(i, j, s, props) == [i |-> i, j |-> j, s |-> s, props |-> props]
MArgNone == MArg(0, 0, <<>>, "")

\* The state of an operation: it needs the answer of a call, it returned a
\* KodiResponse, or it raised.  used: the calls of the log it has consumed.
Op(st, method, marg, resp, exc, used) ==
    [st |-> st, method |-> method, marg |-> marg, resp |-> resp, exc |-> exc, used |-> used]
Need(method, marg, used) == Op("need", method, marg, NoResp, NoExc, used)
Ret(resp, used) == Op("ret", "", MArgNone, resp, NoExc, used)
Raise(exc, used) == Op("raise", "", MArgNone, NoResp, exc, used)

\* self._make_request(method, params) as call number idx of the dispatch
Call(outs, idx, method, marg) ==
    IF idx > Len(outs) THEN Need(method, marg, idx - 1)
    ELSE IF outs[idx].st = "raise" THEN Raise(outs[idx].exc, idx)
    ELSE Ret(outs[idx].resp, idx)

\* response.data[0]["playerid"] (lines 168, 236, 247)
FirstPlayer(d) ==
    CASE d.kind = "list" /\ d.players[1].hasId -> Conv(TRUE, d.players[1].playerid, <<>>, FALSE, NoExc)
      [] d.kind = "list" -> Conv(FALSE, 0, <<>>, FALSE, Exc("KeyError", << "'playerid'" >>))
      [] d.kind = "dict" -> Conv(FALSE, 0, <<>>, FALSE, Exc("KeyError", << "0" >>))
      [] OTHER           -> Conv(FALSE, 0, <<>>, FALSE,
                                 Exc("TypeError", << "string indices must be integers" >>))

\* x.get(...) on a JSON value that may not be an object
GetFails(d) == d.kind # "dict"
AttrError == Exc("AttributeError", << "object has no attribute 'get'" >>)

get_now_playing(outs) ==
    LET response == Call(outs, 1, "Player.GetActivePlayers", MArgNone)
    IN  IF response.st # "ret" THEN response
        ELSE IF ~response.resp.success \/ ~Truthy(response.resp.data)
        THEN Ret(KodiResponse(TRUE, [status |-> "nothing_playing"], ErrNone, CodeNone), 1)
        ELSE
        LET player == FirstPlayer(response.resp.data)
            player_id == player.i
            item1 == Call(outs, 2, "Player.GetItem", MArg(player_id, 0, <<>>, "basic"))
        IN  IF ~player.ok THEN Raise(player.exc, 1)
            ELSE IF item1.st # "ret" THEN item1
            ELSE
            LET again == ~item1.resp.success
                item_response == IF again
                                 THEN Call(outs, 3, "Player.GetItem", MArg(player_id, 0, <<>>, "none"))
                                 ELSE item1
                n == IF again THEN 3 ELSE 2
                props1 == Call(outs, n + 1, "Player.GetProperties", MArg(player_id, 0, <<>>, "full"))
            IN  IF item_response.st # "ret" THEN item_response
                ELSE IF props1.st # "ret" THEN props1
                ELSE
                LET again2 == ~props1.resp.success
                    props_response ==
                        IF again2
                        THEN Call(outs, n + 2, "Player.GetProperties", MArg(player_id, 0, <<>>, "reduced"))
                        ELSE props1
                    hasItem == item_response.resp.success /\ Truthy(item_response.resp.data)
                    hasProps == props_response.resp.success /\ Truthy(props_response.resp.data)
                IN  IF props_response.st # "ret" THEN props_response
                    ELSE IF hasItem /\ GetFails(item_response.resp.data)
                    THEN Raise(AttrError, props_response.used)
                    ELSE Ret(KodiResponse(TRUE,
                                [status |-> "playing", player_id |-> player_id,
                                 player_type |-> response.resp.data.players[1].type,
                                 hasItem |-> hasItem, hasProperties |-> hasProps],
                                ErrNone, CodeNone), props_response.used)

\* PlayerAction that acts on player 0 whatever the query answered
MutPlayerActionAlways(outs, method) ==
    LET response == Call(outs, 1, "Player.GetActivePlayers", MArgNone)
    IN  IF response.st # "ret" THEN response
        ELSE Call(outs, 2, method, MArg(0, 0, <<>>, ""))

\* player_play_pause and player_stop differ only in the method they end with
PlayerAction(outs, method) ==
    LET response == Call(outs, 1, "Player.GetActivePlayers", MArgNone)
    IN  IF response.st # "ret" THEN response
        ELSE IF ~response.resp.success \/ ~Truthy(response.resp.data)
        THEN Ret(KodiResponse(FALSE, DNull, ErrMsg(<< "Aucun player actif" >>), CodeNone), 1)
        ELSE LET player == FirstPlayer(response.resp.data)
             IN  IF ~player.ok THEN Raise(player.exc, 1)
                 ELSE Call(outs, 2, method, MArg(player.i, 0, <<>>, ""))

player_play_pause(outs) == PlayerAction(outs, "Player.PlayPause")
player_stop(outs) == PlayerAction(outs, "Player.Stop")

\* set_volume without its test of the level
MutSetVolumeUnchecked(level, outs) ==
    Call(outs, 1, "Application.SetVolume", MArg(level, 0, <<>>, ""))

set_volume(level, outs) ==
    IF ~(VolumeMin <= level /\ level <= VolumeMax)
    THEN Ret(KodiResponse(FALSE, DNull, ErrMsg(<< "Le volume doit etre entre 0 et 100" >>), CodeNone), 0)
    ELSE Call(outs, 1, "Application.SetVolume", MArg(level, 0, <<>>, ""))

\* NavigationDirection and direction_mapping (lines 40-47, 280-287)
NavigationDirection ==
    << [value |-> << "u","p" >>, method |-> "Input.Up"],
       [value |-> << "d","o","w","n" >>, method |-> "Input.Down"],
       [value |-> << "l","e","f","t" >>, method |-> "Input.Left"],
       [value |-> << "r","i","g","h","t" >>, method |-> "Input.Right"],
       [value |-> << "s","e","l","e","c","t" >>, method |-> "Input.Select"],
       [value |-> << "b","a","c","k" >>, method |-> "Input.Back"] >>

navigate_menu(direction, outs) ==
    LET d == Lower(direction)
        known == { k \in 1..Len(NavigationDirection) : NavigationDirection[k].value = d }
    IN  IF known = {}
        THEN Ret(KodiResponse(FALSE, DNull,
                              ErrMsg(<< "Direction invalide. Doit etre un de: ",
                                        "['up', 'down', 'left', 'right', 'select', 'back']" >>),
                              CodeNone), 0)
        ELSE Call(outs, 1, NavigationDirection[CHOOSE k \in known : TRUE].method, MArgNone)

search_movies(query, outs) ==
    IF Strip(query) = <<>>
    THEN Ret(KodiResponse(FALSE, DNull,
                          ErrMsg(<< "La requete de recherche ne peut pas etre vide" >>), CodeNone), 0)
    ELSE Call(outs, 1, "VideoLibrary.GetMovies", MArg(0, 0, query, "search"))

list_recent_movies(limit, outs) ==
    Call(outs, 1, "VideoLibrary.GetRecentlyAddedMovies", MArg(limit, 0, <<>>, ""))

list_tv_shows(outs) == Call(outs, 1, "VideoLibrary.GetTVShows", MArgNone)

play_movie(movie_id, outs) == Call(outs, 1, "Player.Open", MArg(movie_id, 0, <<>>, "movieid"))

\* the first episode of the listing with the requested number (lines 394-398)
RECURSIVE FindEpisode(_, _)
FindEpisode(eps, episode) ==
    IF eps = <<>> THEN 0
    ELSE IF Head(eps).episode = episode THEN 1
    ELSE LET r == FindEpisode(Tail(eps), episode) IN IF r = 0 THEN 0 ELSE r + 1

play_episode(tvshow_id, season, episode, outs) ==
    LET episodes_response ==
            Call(outs, 1, "VideoLibrary.GetEpisodes", MArg(tvshow_id, season, <<>>, "episode"))
    IN  IF episodes_response.st # "ret" THEN episodes_response
        ELSE IF ~episodes_response.resp.success \/ ~Truthy(episodes_response.resp.data)
        THEN Ret(KodiResponse(FALSE, DNull, ErrMsg(<< "Episode introuvable" >>), CodeNone), 1)
        ELSE IF GetFails(episodes_response.resp.data) THEN Raise(AttrError, 1)
        ELSE
        LET eps == episodes_response.resp.data.episodes
            at == FindEpisode(eps, episode)
        IN  IF at = 0
            THEN Ret(KodiResponse(FALSE, DNull,
                                  ErrMsg(<< "Episode ", "introuvable" >>), CodeNone), 1)
            ELSE IF ~eps[at].hasId THEN Raise(Exc("KeyError", << "'episodeid'" >>), 1)
            ELSE Call(outs, 2, "Player.Open", MArg(eps[at].episodeid, 0, <<>>, "episodeid"))

StatMethods == << "VideoLibrary.GetMovies", "VideoLibrary.GetTVShows",
                  "VideoLibrary.GetEpisodes", "AudioLibrary.GetSongs" >>

\* the four counting calls from call k on, inside the try block (lines 416-435):
\* response.data.get("limits", {}).get("total", 0) when the call succeeded
RECURSIVE StatsFrom(_, _, _)
StatsFrom(outs, k, counts) ==
    IF k > Len(StatMethods)
    THEN Ret(KodiResponse(TRUE,
                [movies |-> counts[1], tv_shows |-> counts[2], episodes |-> counts[3],
                 songs |-> counts[4], total_video_items |-> counts[1] + counts[3]],
                ErrNone, CodeNone), k - 1)
    ELSE LET r == Call(outs, k, StatMethods[k], MArg(0, 0, <<>>, "limits"))
             counted == r.resp.success /\ Truthy(r.resp.data)
             count == IF counted /\ r.resp.data.hasLimits THEN r.resp.data.total ELSE 0
         IN  IF r.st # "ret" THEN r
             ELSE IF counted /\ GetFails(r.resp.data) THEN Raise(AttrError, k)
             ELSE StatsFrom(outs, k + 1, Append(counts, count))

get_library_stats(outs) ==
    LET r == StatsFrom(outs, 1, <<>>)
    IN  IF r.st = "raise"
        THEN Ret(KodiResponse(FALSE, DNull, ErrMsg(r.exc.parts), CodeNone), r.used)
        ELSE r

scan_library(library_type, outs) ==
    IF Lower(library_type) = << "v","i","d","e","o" >> THEN Call(outs, 1, "VideoLibrary.Scan", MArgNone)
    ELSE IF Lower(library_type) = << "a","u","d","i","o" >> THEN Call(outs, 1, "AudioLibrary.Scan", MArgNone)
    ELSE Ret(KodiResponse(FALSE, DNull,
                          ErrMsg(<< "Type de bibliotheque invalide. Doit etre 'video' ou 'audio'" >>),
                          CodeNone), 0)

\* ------------------------------------------------------------------------
\* String operations of the file index
\* ------------------------------------------------------------------------
\* s.startswith(t)
StartsWith(s, t) == Len(t) <= Len(s) /\ SubSeq(s, 1, Len(t)) = t
\* s.endswith(t)
EndsWith(s, t) == Len(t) <= Len(s) /\ SubSeq(s, Len(s) - Len(t) + 1, Len(s)) = t
\* t in s, for strings
Contains(s, t) == \E k \in 0..(Len(s) - Len(t)) : SubSeq(s, k + 1, k + Len(t)) = t

\* s.split("/")[-1]
RECURSIVE LastComponent(_)
LastComponent(s) ==
    IF \A k \in 1..Len(s) : s[k] # "/" THEN s
    ELSE LastComponent(Tail(s))

\* s.replace(".", " ").replace("_", " ").replace("-", " ")
ReplaceSeparators(s) ==
    SubSeq([k \in 1..Len(s) |-> IF s[k] \in {".", "_", "-"} THEN " " ELSE s[k]], 1, Len(s))

\* s.split(): the maximal runs of non-blank characters, in order
Split(s) ==
    LET RECURSIVE SplitWords(_, _, _)
        SplitWords(t, cur, acc) ==
            IF t = <<>> THEN (IF cur = <<>> THEN acc ELSE Append(acc, cur))
            ELSE IF IsSpace(Head(t))
                 THEN SplitWords(Tail(t), <<>>, IF cur = <<>> THEN acc ELSE Append(acc, cur))
                 ELSE SplitWords(Tail(t), Append(cur, Head(t)), acc)
    IN  SplitWords(s, <<>>, <<>>)

\* video_extensions (line 526)
VideoExtensions == << << ".","m","k","v" >>, << ".","m","p","4" >>, << ".","a","v","i" >>, << ".","m","o","v" >>, << ".","w","m","v" >>, << ".","m","4","v" >>, << ".","f","l","v" >>, << ".","w","e","b","m" >> >>

\* suspicious_keywords and quality_keywords (lines 710, 716)
SuspiciousKeywords == << << "s","a","m","p","l","e" >>, << "t","r","a","i","l","e","r" >>, << "p","r","e","v","i","e","w" >>, << "d","e","m","o" >> >>
QualityKeywords == << << "1","0","8","0","p" >>, << "7","2","0","p" >>, << "4","k" >>, << "h","d" >>, << "b","l","u","r","a","y" >>, << "w","e","b","r","i","p" >> >>

\* search_in_directory lists with limit=100 (line 629)
SearchListLimit == 100
\* all_matches keeps scored_files[:5] (line 784)
TopMatches == 5
\* format_file_size divides by 1024 (lines 488, 493)
SizeStep == 1024

RECURSIVE PowStep(_)
PowStep(k) == IF k = 0 THEN 1 ELSE SizeStep * PowStep(k - 1)

SizeUnits == << "B", "KB", "MB", "GB", "TB" >>

\* f"{x:.1f}" of the exact quotient n / d, in tenths: the nearest, a tie to the even
TenthsOf(n, d) ==
    LET q == 10 * (n \div d) + (10 * (n % d)) \div d
        r == (10 * (n % d)) % d
    IN  IF 2 * r < d THEN q
        ELSE IF 2 * r > d THEN q + 1
        ELSE IF q % 2 = 0 THEN q ELSE q + 1

\* a unit loop that tests size_bytes <= 1024
RECURSIVE MutFormatFromInclusive(_, _, _)
MutFormatFromInclusive(n, shift, k) ==
    LET e == shift - (k - 1)
        below == IF e > 0 THEN FALSE
                 ELSE \/ (n \div PowStep(0 - e)) < SizeStep
                      \/ (n \div PowStep(0 - e)) = SizeStep /\ n % PowStep(0 - e) = 0
        tenths == IF e >= 0 THEN 10 * n * PowStep(e) ELSE TenthsOf(n, PowStep(0 - e))
    IN  IF k > Len(SizeUnits)
        THEN [whole |-> tenths \div 10, tenth |-> tenths % 10, decimal |-> TRUE, unit |-> "PB"]
        ELSE IF below
        THEN IF k = 1
             THEN [whole |-> n, tenth |-> 0, decimal |-> FALSE, unit |-> "B"]
             ELSE [whole |-> tenths \div 10, tenth |-> tenths % 10, decimal |-> TRUE,
                   unit |-> SizeUnits[k]]
        ELSE MutFormatFromInclusive(n, shift, k + 1)

\* the unit loop of format_file_size from unit k on.  A Python integer has no
\* width: the byte count is n * 1024^shift, and at unit k the variable
\* size_bytes holds n * 1024^e.
RECURSIVE FormatFrom(_, _, _)
FormatFrom(n, shift, k) ==
    LET e == shift - (k - 1)
        below == IF e > 0 THEN FALSE ELSE (n \div PowStep(0 - e)) < SizeStep
        tenths == IF e >= 0 THEN 10 * n * PowStep(e) ELSE TenthsOf(n, PowStep(0 - e))
    IN  IF k > Len(SizeUnits)
        THEN [whole |-> tenths \div 10, tenth |-> tenths % 10, decimal |-> TRUE, unit |-> "PB"]
        ELSE IF below
        THEN IF k = 1
             THEN [whole |-> n, tenth |-> 0, decimal |-> FALSE, unit |-> "B"]
             ELSE [whole |-> tenths \div 10, tenth |-> tenths % 10, decimal |-> TRUE,
                   unit |-> SizeUnits[k]]
        ELSE FormatFrom(n, shift, k + 1)

\* format_file_size(n * 1024^shift)
format_file_size(n, shift) ==
    IF n = 0
    THEN [whole |-> 0, tenth |-> 0, decimal |-> FALSE, unit |-> "B"]
    ELSE FormatFrom(n, shift, 1)

\* One entry of Files.GetDirectory
FileInfo(filetype, file, size, datemodified) ==
    [filetype |-> filetype, file |-> file, size |-> size, datemodified |-> datemodified]

\* the extension test without lower(): upper case extensions are not recognized
MutIsVideoPathCaseSensitive(file_path) ==
    \E k \in 1..Len(VideoExtensions) : EndsWith(file_path, VideoExtensions[k])

IsVideoPath(file_path) ==
    \E k \in 1..Len(VideoExtensions) : EndsWith(Lower(file_path), VideoExtensions[k])

\* the loop of list_directory (lines 528-547): the video files in the order of
\* the listing, none once total_processed has reached limit
CollectVideos(infos, limit) ==
    LET videos == SelectSeq(infos, LAMBDA file_info :
                                file_info.filetype = "file" /\ IsVideoPath(file_info.file))
        kept == SubSeq(videos, 1, Min2(Max2(limit, 0), Len(videos)))
    IN  SubSeq([k \in 1..Len(kept) |->
                  [name |-> LastComponent(kept[k].file),
                   path |-> kept[k].file,
                   size |-> kept[k].size,
                   size_formatted |-> format_file_size(kept[k].size, 0),
                   modified |-> kept[k].datemodified,
                   type |-> "video"]],
               1, Len(kept))

\* k: the calls of the log consumed before the operation starts
list_directory(path, limit, outs, k) ==
    LET response == Call(outs, k + 1, "Files.GetDirectory", MArg(0, 0, path, "directory"))
    IN  IF response.st = "need" THEN response
        ELSE IF response.st = "raise"
        THEN Ret(KodiResponse(FALSE, DNull,
                              ErrMsg(<< "Erreur lors du listing: " >> \o response.exc.parts),
                              CodeName("DIRECTORY_LIST_ERROR")), k + 1)
        ELSE IF ~response.resp.success
        THEN Ret(KodiResponse(FALSE, DNull,
                              ErrMsg(<< "Impossible d'acceder au dossier: " >>
                                     \o ErrText(response.resp.error)),
                              CodeName("DIRECTORY_ACCESS_ERROR")), k + 1)
        ELSE LET d == response.resp.data
                 files == IF Truthy(d) /\ d.kind = "dict" /\ d.hasFiles
                          THEN CollectVideos(d.files, limit)
                          ELSE <<>>
             IN  Ret(KodiResponse(TRUE,
                        [files |-> files, total |-> Len(files), path |-> path, limit |-> limit],
                        ErrNone, CodeNone), k + 1)

\* a play_file that reports success whatever the upstream answered
MutPlayFileIgnoresAnswer(file_path, outs, k) ==
    LET response == Call(outs, k + 1, "Player.Open", MArg(0, 0, Strip(file_path), "file"))
    IN  IF response.st = "need" THEN response
        ELSE Ret(KodiResponse(TRUE,
                    [message |-> "Lecture lancee", file_path |-> file_path, status |-> "playing"],
                    ErrNone, CodeNone), k + 1)

play_file(file_path, outs, k) ==
    IF file_path = <<>> \/ Strip(file_path) = <<>>
    THEN Ret(KodiResponse(FALSE, DNull,
                          ErrMsg(<< "Le chemin du fichier ne peut pas etre vide" >>), CodeNone), k)
    ELSE
    LET response == Call(outs, k + 1, "Player.Open", MArg(0, 0, Strip(file_path), "file"))
    IN  IF response.st = "need" THEN response
        ELSE IF response.st = "raise"
        THEN Ret(KodiResponse(FALSE, DNull,
                              ErrMsg(<< "Erreur lors de la lecture: " >> \o response.exc.parts),
                              CodeName("FILE_PLAY_EXCEPTION")), k + 1)
        ELSE IF response.resp.success
        THEN Ret(KodiResponse(TRUE,
                    [message |-> "Lecture lancee", file_path |-> file_path, status |-> "playing"],
                    ErrNone, CodeNone), k + 1)
        ELSE Ret(KodiResponse(FALSE, DNull,
                              ErrMsg(<< "Impossible de lancer le fichier: " >>
                                     \o ErrText(response.resp.error)),
                              CodeName("FILE_PLAY_ERROR")), k + 1)

\* the filter that reads the file name only
MutMatchesNameOnly(file_info, query_lower) ==
    Contains(Lower(file_info.name), query_lower)

\* the filter of search_in_directory (lines 639-650)
MatchesQuery(file_info, query_lower) ==
    Contains(Lower(file_info.name), query_lower) \/ Contains(Lower(file_info.path), query_lower)

\* a filter that keeps every file
MutFilterNothing(files, query_lower) == files

FilterFiles(files, query_lower) ==
    SelectSeq(files, LAMBDA file_info : MatchesQuery(file_info, query_lower))

search_in_directory(path, query, outs, k) ==
    IF query = <<>> \/ Strip(query) = <<>>
    THEN Ret(KodiResponse(FALSE, DNull,
                          ErrMsg(<< "Le terme de recherche ne peut pas etre vide" >>), CodeNone), k)
    ELSE
    LET list_response == list_directory(path, SearchListLimit, outs, k)
    IN  IF list_response.st = "need" THEN list_response
        ELSE IF ~list_response.resp.success
        THEN Ret(KodiResponse(FALSE, DNull,
                              ErrMsg(<< "Impossible de lister le repertoire: " >>
                                     \o ErrText(list_response.resp.error)),
                              CodeName("SEARCH_DIRECTORY_ERROR")), list_response.used)
        ELSE LET filtered_files == FilterFiles(list_response.resp.data.files, Lower(Strip(query)))
             IN  Ret(KodiResponse(TRUE,
                        [files |-> filtered_files, total |-> Len(filtered_files),
                         query |-> query, path |-> path],
                        ErrNone, CodeNone), list_response.used)

\* the number of keywords of a list that occur in the name
CountKeywords(keywords, filename_lower) ==
    Cardinality({ k \in 1..Len(keywords) : Contains(filename_lower, keywords[k]) })

\* a bonus that counts the words containing the query word once
MutWordScoreOnce(query_word, filename_words) ==
    (IF \E k \in 1..Len(filename_words) : filename_words[k] = query_word THEN 15 ELSE 0)
    + (IF \E k \in 1..Len(filename_words) : Contains(filename_words[k], query_word)
       THEN 5 ELSE 0)

\* the bonus of one query word (lines 701-707)
WordScore(query_word, filename_words) ==
    (IF \E k \in 1..Len(filename_words) : filename_words[k] = query_word THEN 15 ELSE 0)
    + 5 * Cardinality({ k \in 1..Len(filename_words) : Contains(filename_words[k], query_word) })

RECURSIVE SumWordScores(_, _)
SumWordScores(query_words, filename_words) ==
    IF query_words = <<>> THEN 0
    ELSE WordScore(Head(query_words), filename_words)
         + SumWordScores(Tail(query_words), filename_words)

calculate_match_score(filename, query) ==
    LET filename_lower == Lower(filename)
        query_lower == Strip(Lower(query))
    IN  IF query_lower = <<>> THEN 0
        ELSE (IF Contains(filename_lower, query_lower) THEN 10 ELSE 0)
             + (IF StartsWith(filename_lower, query_lower) THEN 20 ELSE 0)
             + SumWordScores(Split(query_lower), Split(ReplaceSeparators(filename_lower)))
             - 10 * CountKeywords(SuspiciousKeywords, filename_lower)
             + 2 * CountKeywords(QualityKeywords, filename_lower)

\* a sort that puts the later of two entries of one score first
MutComesBeforeReversed(x, i, y, j) ==
    \/ x.relevance_score > y.relevance_score
    \/ x.relevance_score = y.relevance_score /\ i > j

\* list.sort(key=relevance_score, reverse=True) puts the entry x of index i
\* before the entry y of index j: the sort is stable, equal scores keep their order
ComesBefore(x, i, y, j) ==
    \/ x.relevance_score > y.relevance_score
    \/ x.relevance_score = y.relevance_score /\ i < j

SortByScore(l) ==
    LET n == Len(l)
        before == SubSeq([i \in 1..n |->
                            Cardinality({ j \in 1..n : ComesBefore(l[j], j, l[i], i) })],
                         1, n)
    IN  SubSeq([p \in 1..n |-> l[CHOOSE i \in 1..n : before[i] = p - 1]], 1, n)

\* {**file_info, "relevance_score": score} for every match (lines 759-766)
ScoreFiles(files, query) ==
    SubSeq([k \in 1..Len(files) |->
              [name |-> files[k].name, path |-> files[k].path, size |-> files[k].size,
               size_formatted |-> files[k].size_formatted, modified |-> files[k].modified,
               type |-> files[k].type,
               relevance_score |-> calculate_match_score(files[k].name, query)]],
           1, Len(files))

find_best_match_and_play(path, query, auto_play, outs) ==
    IF query = <<>> \/ Strip(query) = <<>>
    THEN Ret(KodiResponse(FALSE, DNull,
                          ErrMsg(<< "Le terme de recherche ne peut pas etre vide" >>), CodeNone), 0)
    ELSE
    LET Played(search_response, best_match, all_matches, plays, play_response) ==
            LET played == plays /\ play_response.resp.success
            IN  IF plays /\ play_response.st = "need" THEN play_response
                ELSE Ret(KodiResponse(TRUE,
                            [query |-> query, total_found |-> Len(search_response.resp.data.files),
                             best_match |-> best_match, all_matches |-> all_matches,
                             path |-> path, auto_played |-> played,
                             play_status |-> IF ~plays THEN "" ELSE IF played THEN "success" ELSE "failed",
                             play_error |-> IF plays /\ ~played THEN play_response.resp.error ELSE ErrNone],
                            ErrNone, CodeNone),
                         IF plays THEN play_response.used ELSE search_response.used)
        Scored(search_response, scored_files) ==
            Played(search_response, scored_files[1],
                   SubSeq(scored_files, 1, Min2(TopMatches, Len(scored_files))),
                   auto_play /\ scored_files[1].path # <<>>,
                   play_file(scored_files[1].path, outs, search_response.used))
        Searched(search_response) ==
            IF search_response.st = "need" THEN search_response
            ELSE IF ~search_response.resp.success
            THEN Ret(KodiResponse(FALSE, DNull,
                                  ErrMsg(<< "Erreur de recherche: " >> \o ErrText(search_response.resp.error)),
                                  CodeName("SMART_SEARCH_ERROR")), search_response.used)
            ELSE IF search_response.resp.data.files = <<>>
            THEN Ret(KodiResponse(FALSE, DNull,
                                  ErrMsg(<< "Aucun fichier trouve pour la requete" >>),
                                  CodeName("NO_MATCH_FOUND")), search_response.used)
            ELSE Scored(search_response,
                        SortByScore(ScoreFiles(search_response.resp.data.files, query)))
    IN  Searched(search_in_directory(path, query, outs, 0))

\* ------------------------------------------------------------------------
\* The dispatchers
\* ------------------------------------------------------------------------
\* settings.kodi_downloads_path
DownloadsPath == << "/","d","/" >>

\* The argument map of a dispatch: a JSON object (m: key -> value, "absent" for
\* a key it does not hold) or another JSON value.
Params(isDict, m) == [isDict |-> isDict, m |-> m]

\* params.get(key, default); params.get(key) is params.get(key, None)
GetArg(params, key, default) ==
    IF key \in DOMAIN params.m /\ params.m[key].t # "absent" THEN params.m[key] ELSE default

ConvFail(exc) == Conv(FALSE, 0, <<>>, FALSE, exc)

\* int(params.get(key, default))
IntArg(params, key, default) ==
    IF ~params.isDict THEN ConvFail(AttrError) ELSE PyInt(GetArg(params, key, default))
\* str(params.get(key, default))
StrArg(params, key, default) ==
    IF ~params.isDict THEN ConvFail(AttrError)
    ELSE Conv(TRUE, 0, PyStr(GetArg(params, key, default)), FALSE, NoExc)
\* bool(params.get(key, default))
BoolArg(params, key, default) ==
    IF ~params.isDict THEN ConvFail(AttrError)
    ELSE Conv(TRUE, 0, <<>>, PyBool(GetArg(params, key, default)), NoExc)
\* params.get(key), for the dispatchers that test it against None
RawArg(params, key) ==
    IF ~params.isDict THEN [ok |-> FALSE, v |-> VNone, exc |-> AttrError]
    ELSE [ok |-> TRUE, v |-> GetArg(params, key, VNone), exc |-> NoExc]

\* The dict a dispatcher returns.  shape: "payload" (tool, success, data, error,
\* error_code), "short" (success, error) or "mcp" (the JSON text of a CallToolResult).
ResultDict(shape, tool, success, data, error, error_code) ==
    [kind |-> "return", shape |-> shape, tool |-> tool, success |-> success,
     data |-> data, error |-> error, error_code |-> error_code, exc |-> NoExc]
\* An exception leaving the dispatcher
ResultRaise(exc) ==
    [kind |-> "raise", shape |-> "", tool |-> "", success |-> FALSE,
     data |-> DNull, error |-> ErrNone, error_code |-> CodeNone, exc |-> exc]

\* What a dispatcher's if-chain comes to: an operation's state (res = ...), or
\* a dict returned at once.
BranchOp(op) == [early |-> FALSE, op |-> op, dict |-> ResultRaise(NoExc)]
BranchEarly(dict) == [early |-> TRUE, op |-> Op("none", "", MArgNone, NoResp, NoExc, 0), dict |-> dict]

MissingParam(key) == ErrMsg(<< "Parametre '", key, "' manquant" >>)
UnknownTool(name) == ErrMsg(<< "Tool inconnu: ", name >>)

\* list_downloads_files, search_downloads_files, find_and_play_files
\* (hybrid_server.py lines 290-330): the client never raises to them
list_downloads_files(limit, outs) == list_directory(DownloadsPath, limit, outs, 0)
search_downloads_files(query, outs) == search_in_directory(DownloadsPath, query, outs, 0)
find_and_play_files(query, auto_play, outs) ==
    find_best_match_and_play(DownloadsPath, query, auto_play, outs)

\* The keys of TOOLS_DOC (server.py) and the first twelve of MCP_TOOLS
CommonNames ==
    { "get_now_playing", "player_play_pause", "player_stop", "set_volume",
      "navigate_menu", "search_movies", "list_recent_movies", "list_tv_shows",
      "play_movie", "play_episode", "get_library_stats", "scan_library" }

\* the default of params.get("direction", "") (hybrid_server.py line 346)
MutDirectionDefault == VStr(<< "u","p" >>)

DirectionDefault == VStr(<<>>)

\* the else branch of the if-chain (hybrid_server.py lines 388-389, server.py
\* lines 189-190)
MutElseBranch(name, outs) == BranchOp(scan_library(<< "v","i","d","e","o" >>, outs))

ElseBranch(name, outs) ==
    BranchEarly(ResultDict("short", "", FALSE, DNull, UnknownTool(name), CodeNone))

\* The branches that hybrid_server.execute_tool and server.execute_tool share,
\* line for line (hybrid_server.py 336-368, server.py 156-188), and their else
CommonBranch(name, params, outs) ==
    CASE name = "get_now_playing"   -> BranchOp(get_now_playing(outs))
      [] name = "player_play_pause" -> BranchOp(player_play_pause(outs))
      [] name = "player_stop"       -> BranchOp(player_stop(outs))
      [] name = "set_volume" ->
            LET level == IntArg(params, "level", VNone)
            IN  IF level.ok THEN BranchOp(set_volume(level.i, outs))
                ELSE BranchOp(Raise(level.exc, 0))
      [] name = "navigate_menu" ->
            LET direction == StrArg(params, "direction", DirectionDefault)
            IN  IF direction.ok THEN BranchOp(navigate_menu(direction.s, outs))
                ELSE BranchOp(Raise(direction.exc, 0))
      [] name = "search_movies" ->
            LET query == StrArg(params, "query", VStr(<<>>))
            IN  IF query.ok THEN BranchOp(search_movies(Strip(query.s), outs))
                ELSE BranchOp(Raise(query.exc, 0))
      [] name = "list_recent_movies" ->
            LET limit == IntArg(params, "limit", VInt(DefaultRecentLimit))
            IN  IF limit.ok THEN BranchOp(list_recent_movies(limit.i, outs))
                ELSE BranchOp(Raise(limit.exc, 0))
      [] name = "list_tv_shows" -> BranchOp(list_tv_shows(outs))
      [] name = "play_movie" ->
            LET movie_id == IntArg(params, "movie_id", VNone)
            IN  IF movie_id.ok THEN BranchOp(play_movie(movie_id.i, outs))
                ELSE BranchOp(Raise(movie_id.exc, 0))
      [] name = "play_episode" ->
            LET tvshow_id == IntArg(params, "tvshow_id", VNone)
                season == IntArg(params, "season", VNone)
                episode == IntArg(params, "episode", VNone)
            IN  IF ~tvshow_id.ok THEN BranchOp(Raise(tvshow_id.exc, 0))
                ELSE IF ~season.ok THEN BranchOp(Raise(season.exc, 0))
                ELSE IF ~episode.ok THEN BranchOp(Raise(episode.exc, 0))
                ELSE BranchOp(play_episode(tvshow_id.i, season.i, episode.i, outs))
      [] name = "get_library_stats" -> BranchOp(get_library_stats(outs))
      [] name = "scan_library" ->
            LET library_type == StrArg(params, "library_type", VStr(<< "v","i","d","e","o" >>))
            IN  IF library_type.ok THEN BranchOp(scan_library(library_type.s, outs))
                ELSE BranchOp(Raise(library_type.exc, 0))
      [] OTHER -> ElseBranch(name, outs)

\* hybrid_server.execute_tool without its try/except: the if-chain
HybridBranch(name, params, outs) ==
    CASE name = "list_downloads" ->
            LET limit == IntArg(params, "limit", VInt(DefaultDownloadsLimit))
            IN  IF limit.ok THEN BranchOp(list_downloads_files(limit.i, outs))
                ELSE BranchOp(Raise(limit.exc, 0))
      [] name = "play_file" ->
            LET file_path == StrArg(params, "file_path", VStr(<<>>))
            IN  IF ~file_path.ok THEN BranchOp(Raise(file_path.exc, 0))
                ELSE IF Strip(file_path.s) = <<>>
                THEN BranchEarly(ResultDict("short", "", FALSE, DNull, MissingParam("file_path"), CodeNone))
                ELSE BranchOp(play_file(Strip(file_path.s), outs, 0))
      [] name = "search_downloads" ->
            LET query == StrArg(params, "query", VStr(<<>>))
            IN  IF ~query.ok THEN BranchOp(Raise(query.exc, 0))
                ELSE IF Strip(query.s) = <<>>
                THEN BranchEarly(ResultDict("short", "", FALSE, DNull, MissingParam("query"), CodeNone))
                ELSE BranchOp(search_downloads_files(Strip(query.s), outs))
      [] name = "find_and_play" ->
            LET query == StrArg(params, "query", VStr(<<>>))
                auto_play == BoolArg(params, "auto_play", VBool(TRUE))
            IN  IF ~query.ok THEN BranchOp(Raise(query.exc, 0))
                ELSE IF Strip(query.s) = <<>>
                THEN BranchEarly(ResultDict("short", "", FALSE, DNull, MissingParam("query"), CodeNone))
                ELSE BranchOp(find_and_play_files(Strip(query.s), auto_play.b, outs))
      [] OTHER -> CommonBranch(name, params, outs)

\* The status of a dispatch: it waits for an upstream call, or it is over
Waiting(op) == [done |-> FALSE, op |-> op, result |-> ResultRaise(NoExc)]
Over(op, result) == [done |-> TRUE, op |-> op, result |-> result]

\* the end of execute_tool: the payload (lines 391-400) and the except clause
\* (lines 401-403)
MutPayloadNoExcept(name, b) ==
    IF b.early THEN Over(b.op, b.dict)
    ELSE IF b.op.st = "need" THEN Waiting(b.op)
    ELSE IF b.op.st = "raise" THEN Over(b.op, ResultRaise(b.op.exc))
    ELSE Over(b.op, ResultDict("payload", name, b.op.resp.success, b.op.resp.data,
                               b.op.resp.error, b.op.resp.error_code))

PayloadOrExcept(name, b) ==
    IF b.early THEN Over(b.op, b.dict)
    ELSE IF b.op.st = "need" THEN Waiting(b.op)
    ELSE IF b.op.st = "raise"
    THEN Over(b.op, ResultDict("short", "", FALSE, DNull, ErrMsg(b.op.exc.parts), CodeNone))
    ELSE Over(b.op, ResultDict("payload", name, b.op.resp.success, b.op.resp.data,
                               b.op.resp.error, b.op.resp.error_code))

hybrid_execute_tool(name, params, outs) == PayloadOrExcept(name, HybridBranch(name, params, outs))
server_execute_tool(name, params, outs) == PayloadOrExcept(name, CommonBranch(name, params, outs))

MissingEpisodeParams(a, b, c) == ErrMsg(<< "Parametres '", a, "', '", b, "', '", c, "' requis" >>)

\* pure_mcp_server.execute_kodi_tool without its try/except: the if-chain
PureBranch(name, arguments, outs) ==
    CASE name = "getnowplaying" -> BranchOp(get_now_playing(outs))
      [] name = "playerplaypause" -> BranchOp(player_play_pause(outs))
      [] name = "playerstop" -> BranchOp(player_stop(outs))
      [] name = "setvolume" ->
            LET raw == RawArg(arguments, "level")
                n == PyInt(raw.v)
            IN  IF ~raw.ok THEN BranchOp(Raise(raw.exc, 0))
                ELSE IF raw.v.t = "none" THEN BranchEarly(ResultDict("short", "", FALSE, DNull, MissingParam("level"), CodeNone))
                ELSE IF ~n.ok THEN BranchOp(Raise(n.exc, 0))
                ELSE BranchOp(set_volume(n.i, outs))
      [] name = "navigatemenu" ->
            LET raw == RawArg(arguments, "direction")
            IN  IF ~raw.ok THEN BranchOp(Raise(raw.exc, 0))
                ELSE IF raw.v.t = "none" THEN BranchEarly(ResultDict("short", "", FALSE, DNull, MissingParam("direction"), CodeNone))
                ELSE BranchOp(navigate_menu(PyStr(raw.v), outs))
      [] name = "searchmovies" ->
            LET raw == RawArg(arguments, "query")
            IN  IF ~raw.ok THEN BranchOp(Raise(raw.exc, 0))
                ELSE IF raw.v.t = "none" THEN BranchEarly(ResultDict("short", "", FALSE, DNull, MissingParam("query"), CodeNone))
                ELSE BranchOp(search_movies(PyStr(raw.v), outs))
      [] name = "listrecentmovies" ->
            LET limit == IntArg(arguments, "limit", VInt(DefaultRecentLimit))
            IN  IF limit.ok THEN BranchOp(list_recent_movies(limit.i, outs))
                ELSE BranchOp(Raise(limit.exc, 0))
      [] name = "listtvshows" -> BranchOp(list_tv_shows(outs))
      [] name = "playmovie" ->
            LET raw == RawArg(arguments, "movieid")
                n == PyInt(raw.v)
            IN  IF ~raw.ok THEN BranchOp(Raise(raw.exc, 0))
                ELSE IF raw.v.t = "none" THEN BranchEarly(ResultDict("short", "", FALSE, DNull, MissingParam("movieid"), CodeNone))
                ELSE IF ~n.ok THEN BranchOp(Raise(n.exc, 0))
                ELSE BranchOp(play_movie(n.i, outs))
      [] name = "playepisode" ->
            LET tvshow_id == RawArg(arguments, "tvshowid")
                season == RawArg(arguments, "season")
                episode == RawArg(arguments, "episode")
                t == PyInt(tvshow_id.v)
                s == PyInt(season.v)
                e == PyInt(episode.v)
            IN  IF ~tvshow_id.ok THEN BranchOp(Raise(tvshow_id.exc, 0))
                ELSE IF tvshow_id.v.t = "none" \/ season.v.t = "none" \/ episode.v.t = "none"
                THEN BranchEarly(ResultDict("short", "", FALSE, DNull, MissingEpisodeParams("tvshowid", "season", "episode"), CodeNone))
                ELSE IF ~t.ok THEN BranchOp(Raise(t.exc, 0))
                ELSE IF ~s.ok THEN BranchOp(Raise(s.exc, 0))
                ELSE IF ~e.ok THEN BranchOp(Raise(e.exc, 0))
                ELSE BranchOp(play_episode(t.i, s.i, e.i, outs))
      [] name = "getlibrarystats" -> BranchOp(get_library_stats(outs))
      [] name = "scanlibrary" ->
            LET library_type == StrArg(arguments, "librarytype", VStr(<< "v","i","d","e","o" >>))
            IN  IF library_type.ok THEN BranchOp(scan_library(library_type.s, outs))
                ELSE BranchOp(Raise(library_type.exc, 0))
      [] name = "listdownloads" ->
            LET limit == IntArg(arguments, "limit", VInt(DefaultDownloadsLimit))
            IN  IF limit.ok THEN BranchOp(list_downloads_files(limit.i, outs))
                ELSE BranchOp(Raise(limit.exc, 0))
      [] name = "playfile" ->
            LET raw == RawArg(arguments, "filepath")
            IN  IF ~raw.ok THEN BranchOp(Raise(raw.exc, 0))
                ELSE IF raw.v.t = "none" THEN BranchEarly(ResultDict("short", "", FALSE, DNull, MissingParam("filepath"), CodeNone))
                ELSE BranchOp(play_file(PyStr(raw.v), outs, 0))
      [] name = "searchdownloads" ->
            LET raw == RawArg(arguments, "query")
            IN  IF ~raw.ok THEN BranchOp(Raise(raw.exc, 0))
                ELSE IF raw.v.t = "none" THEN BranchEarly(ResultDict("short", "", FALSE, DNull, MissingParam("query"), CodeNone))
                ELSE BranchOp(search_downloads_files(PyStr(raw.v), outs))
      [] OTHER -> BranchEarly(ResultDict("short", "", FALSE, DNull, ErrMsg(<< "Tool inconnu: ", name >>), CodeNone))

\* the formatting of the result (lines 398-411) and the except clause (413-419)
pure_execute_kodi_tool(name, arguments, outs) ==
    LET Finish(b) ==
            IF b.early THEN Over(b.op, b.dict)
            ELSE IF b.op.st = "need" THEN Waiting(b.op)
            ELSE IF b.op.st = "raise"
            THEN Over(b.op, ResultDict("short", name, FALSE, DNull, ErrMsg(b.op.exc.parts), CodeNone))
            ELSE IF b.op.resp.success
            THEN Over(b.op, ResultDict("payload", name, TRUE, b.op.resp.data, ErrNone, CodeNone))
            ELSE Over(b.op, ResultDict("payload", name, FALSE, DNull,
                                       b.op.resp.error, b.op.resp.error_code))
    IN  Finish(PureBranch(name, arguments, outs))

\* mcp_server.call_tool without its try/except: the if-chain
McpBranch(name, arguments, outs) ==
    CASE name = "get_now_playing" -> BranchOp(get_now_playing(outs))
      [] name = "player_play_pause" -> BranchOp(player_play_pause(outs))
      [] name = "player_stop" -> BranchOp(player_stop(outs))
      [] name = "set_volume" ->
            LET raw == RawArg(arguments, "level")
                n == PyInt(raw.v)
            IN  IF ~raw.ok THEN BranchOp(Raise(raw.exc, 0))
                ELSE IF raw.v.t = "none" THEN BranchOp(Ret(KodiResponse(FALSE, DNull, MissingParam("level"), CodeNone), 0))
                ELSE IF ~n.ok THEN BranchOp(Raise(n.exc, 0))
                ELSE BranchOp(set_volume(n.i, outs))
      [] name = "navigate_menu" ->
            LET raw == RawArg(arguments, "direction")
            IN  IF ~raw.ok THEN BranchOp(Raise(raw.exc, 0))
                ELSE IF raw.v.t = "none" THEN BranchOp(Ret(KodiResponse(FALSE, DNull, MissingParam("direction"), CodeNone), 0))
                ELSE BranchOp(navigate_menu(PyStr(raw.v), outs))
      [] name = "search_movies" ->
            LET raw == RawArg(arguments, "query")
            IN  IF ~raw.ok THEN BranchOp(Raise(raw.exc, 0))
                ELSE IF raw.v.t = "none" THEN BranchOp(Ret(KodiResponse(FALSE, DNull, MissingParam("query"), CodeNone), 0))
                ELSE BranchOp(search_movies(PyStr(raw.v), outs))
      [] name = "list_recent_movies" ->
            LET limit == IntArg(arguments, "limit", VInt(DefaultRecentLimit))
            IN  IF limit.ok THEN BranchOp(list_recent_movies(limit.i, outs))
                ELSE BranchOp(Raise(limit.exc, 0))
      [] name = "list_tv_shows" -> BranchOp(list_tv_shows(outs))
      [] name = "play_movie" ->
            LET raw == RawArg(arguments, "movie_id")
                n == PyInt(raw.v)
            IN  IF ~raw.ok THEN BranchOp(Raise(raw.exc, 0))
                ELSE IF raw.v.t = "none" THEN BranchOp(Ret(KodiResponse(FALSE, DNull, MissingParam("movie_id"), CodeNone), 0))
                ELSE IF ~n.ok THEN BranchOp(Raise(n.exc, 0))
                ELSE BranchOp(play_movie(n.i, outs))
      [] name = "play_episode" ->
            LET tvshow_id == RawArg(arguments, "tvshow_id")
                season == RawArg(arguments, "season")
                episode == RawArg(arguments, "episode")
                t == PyInt(tvshow_id.v)
                s == PyInt(season.v)
                e == PyInt(episode.v)
            IN  IF ~tvshow_id.ok THEN BranchOp(Raise(tvshow_id.exc, 0))
                ELSE IF tvshow_id.v.t = "none" \/ season.v.t = "none" \/ episode.v.t = "none"
                THEN BranchOp(Ret(KodiResponse(FALSE, DNull, MissingEpisodeParams("tvshow_id", "season", "episode"), CodeNone), 0))
                ELSE IF ~t.ok THEN BranchOp(Raise(t.exc, 0))
                ELSE IF ~s.ok THEN BranchOp(Raise(s.exc, 0))
                ELSE IF ~e.ok THEN BranchOp(Raise(e.exc, 0))
                ELSE BranchOp(play_episode(t.i, s.i, e.i, outs))
      [] name = "get_library_stats" -> BranchOp(get_library_stats(outs))
      [] name = "scan_library" ->
            LET library_type == StrArg(arguments, "library_type", VStr(<< "v","i","d","e","o" >>))
            IN  IF library_type.ok THEN BranchOp(scan_library(library_type.s, outs))
                ELSE BranchOp(Raise(library_type.exc, 0))
      [] OTHER -> BranchOp(Ret(KodiResponse(FALSE, DNull, UnknownTool(name), CodeNone), 0))

\* kodi_response_to_mcp_result (lines 44-66): the JSON text of the result
kodi_response_to_mcp_result(response, tool_name) ==
    IF response.success
    THEN ResultDict("mcp", tool_name, TRUE, response.data, ErrNone, CodeNone)
    ELSE ResultDict("mcp", tool_name, FALSE, DNull, response.error, response.error_code)

mcp_call_tool(name, arguments, outs) ==
    LET Finish(b) ==
            IF b.op.st = "need" THEN Waiting(b.op)
            ELSE IF b.op.st = "raise"
            THEN Over(b.op, kodi_response_to_mcp_result(
                                KodiResponse(FALSE, DNull, ErrMsg(b.op.exc.parts), CodeNone), name))
            ELSE Over(b.op, kodi_response_to_mcp_result(b.op.resp, name))
    IN  Finish(McpBranch(name, arguments, outs))

\* ------------------------------------------------------------------------
\* The registries, and the inputs of a dispatch
\* ------------------------------------------------------------------------
Servers == { "hybrid", "server", "pure", "mcp" }

\* the names of MCP_TOOLS that server.py's TOOLS_DOC does not hold
DownloadNames == { "list_downloads", "play_file", "search_downloads", "find_and_play" }

\* MCP_TOOLS_SPEC of pure_mcp_server.py
PureNames ==
    { "getnowplaying", "playerplaypause", "playerstop", "setvolume", "navigatemenu",
      "searchmovies", "listrecentmovies", "listtvshows", "playmovie", "playepisode",
      "getlibrarystats", "scanlibrary", "listdownloads", "playfile", "searchdownloads" }

\* The tool names each server registers
Registry(s) ==
    CASE s = "hybrid" -> CommonNames \cup DownloadNames
      [] s = "pure"   -> PureNames
      [] OTHER        -> CommonNames

\* The parameters each registry marks as required, in their declared order
RequiredParams(name) ==
    CASE name \in { "set_volume", "setvolume" }        -> << "level" >>
      [] name \in { "navigate_menu", "navigatemenu" }  -> << "direction" >>
      [] name \in { "search_movies", "searchmovies", "search_downloads",
                    "searchdownloads", "find_and_play" } -> << "query" >>
      [] name = "play_movie"   -> << "movie_id" >>
      [] name = "playmovie"    -> << "movieid" >>
      [] name = "play_episode" -> << "tvshow_id", "season", "episode" >>
      [] name = "playepisode"  -> << "tvshowid", "season", "episode" >>
      [] name = "play_file"    -> << "file_path" >>
      [] name = "playfile"     -> << "filepath" >>
      [] OTHER                 -> <<>>

\* The optional parameters of the registries
OptionalParams(name) ==
    CASE name \in { "list_recent_movies", "listrecentmovies", "list_downloads",
                    "listdownloads" } -> << "limit" >>
      [] name = "scan_library" -> << "library_type" >>
      [] name = "scanlibrary"  -> << "librarytype" >>
      [] name = "find_and_play" -> << "auto_play" >>
      [] OTHER -> <<>>

\* every name of a registry, and one that no registry holds
ToolNames == CommonNames \cup DownloadNames \cup PureNames \cup { "reboot" }

ParamKeys ==
    { "level", "direction", "query", "limit", "movie_id", "movieid", "tvshow_id",
      "tvshowid", "season", "episode", "library_type", "librarytype", "file_path",
      "filepath", "auto_play" }

\* The values a caller may send for a parameter: absent, null, well typed and
\* wrongly typed
ParamValues(key) ==
    CASE key = "level" ->
            { VAbsent, VNone, VInt(50), VInt(101), VStr(<< "7" >>), VStr(<< "x" >>) }
      [] key = "direction" ->
            { VAbsent, VNone, VStr(<< "u","p" >>), VStr(<< "B","a","c","k" >>), VStr(<<>>), VStr(<< "z","z" >>), VInt(5) }
      [] key = "query" ->
            { VAbsent, VNone, VStr(<<>>), VStr(<< " " >>), VStr(<< "m","a","t","r","i","x" >>), VStr(<< " ","A","v","e","n","g","e","r","s"," " >>),
              VStr(<< "z","z","z" >>), VInt(5) }
      [] key = "limit" -> { VAbsent, VNone, VInt(1), VInt(2), VStr(<< "x" >>) }
      [] key \in { "movie_id", "movieid" } -> { VAbsent, VNone, VInt(1), VStr(<< "x" >>) }
      [] key \in { "tvshow_id", "tvshowid" } -> { VAbsent, VInt(1), VStr(<< "x" >>) }
      [] key = "season" -> { VAbsent, VNone, VInt(1) }
      [] key = "episode" -> { VAbsent, VStr(<< "x" >>) } \cup { VInt(n) : n \in 1..MaxEpisodes }
      [] key \in { "library_type", "librarytype" } ->
            { VAbsent, VStr(<< "v","i","d","e","o" >>), VStr(<< "A","U","D","I","O" >>), VStr(<< "p","h","o","t","o" >>) }
      [] key \in { "file_path", "filepath" } ->
            { VAbsent, VNone, VStr(<<>>), VStr(<< " " >>), VStr(<< "/","d","/","T","h","e",".","M","a","t","r","i","x",".","7","2","0","p",".","m","k","v" >>) }
      [] OTHER -> { VAbsent, VBool(TRUE), VBool(FALSE), VStr(<< "f","a","l","s","e" >>), VInt(0) }

\* The argument maps sent with a tool name: every choice of values for the
\* parameters the tool declares, and a body that is no JSON object
ArgumentMaps(name) ==
    LET declared == { RequiredParams(name)[k] : k \in 1..Len(RequiredParams(name)) }
                    \cup { OptionalParams(name)[k] : k \in 1..Len(OptionalParams(name)) }
        values == UNION { ParamValues(key) : key \in declared }
        choices == { f \in [declared -> values] : \A key \in declared : f[key] \in ParamValues(key) }
    IN  { Params(TRUE, [key \in ParamKeys |-> IF key \in declared THEN f[key] ELSE VAbsent]) :
            f \in choices }
        \cup { Params(FALSE, [key \in ParamKeys |-> VAbsent]) }

\* ------------------------------------------------------------------------
\* What the upstream may answer to each method
\* ------------------------------------------------------------------------
\* The downloads folder of the upstream: a sub-folder, three videos, a text file
Catalogue ==
    << FileInfo("directory", << "/","d","/","s","u","b","/" >>, 0, "d0"),
       FileInfo("file", << "/","d","/","A","v","e","n","g","e","r","s",".","E","n","d","g","a","m","e",".","1","0","8","0","p",".","m","k","v" >>, 1536, "d1"),
       FileInfo("file", << "/","d","/","a","v","e","n","g","e","r","s","_","s","a","m","p","l","e",".","m","p","4" >>, 0, "d2"),
       FileInfo("file", << "/","d","/","T","h","e",".","M","a","t","r","i","x",".","7","2","0","p",".","m","k","v" >>, 1048576, "d3"),
       FileInfo("file", << "/","d","/","n","o","t","e","s",".","t","x","t" >>, 12, "d4") >>

\* Another folder: five videos and two other entries, the text file first, an
\* upper case extension, a directory named like a video, the sample before the
\* film
CatalogueMixed ==
    << FileInfo("file", << "/","d","/","n","o","t","e","s",".","t","x","t" >>, 12, "d4"),
       FileInfo("file", << "/","d","/","T","h","e",".","M","a","t","r","i","x",".","7","2","0","p",".","M","K","V" >>, 1048576, "d3"),
       FileInfo("directory", << "/","d","/","c","l","i","p","s",".","m","k","v" >>, 0, "d5"),
       FileInfo("file", << "/","d","/","a","v","e","n","g","e","r","s","_","s","a","m","p","l","e",".","m","p","4" >>, 0, "d2"),
       FileInfo("file", << "/","d","/","A","v","e","n","g","e","r","s",".","E","n","d","g","a","m","e",".","1","0","8","0","p",".","m","k","v" >>, 1536, "d1"),
       FileInfo("file", << "/","d","/","h","d",".","f","l","v" >>, 7, "d6"),
       FileInfo("file", << "/","d","/","A","v","e","n","g","e","r","s",".","2","0","1","2",".","W","e","b","M" >>, 1025, "d7") >>

\* A folder of six videos: five of one score for the query "mkv", then a better one
CatalogueLong ==
    << FileInfo("file", << "/","d","/","e","1",".","m","k","v" >>, 1, "e1"),
       FileInfo("file", << "/","d","/","e","2",".","m","k","v" >>, 2, "e2"),
       FileInfo("file", << "/","d","/","e","3",".","m","k","v" >>, 3, "e3"),
       FileInfo("file", << "/","d","/","e","4",".","m","k","v" >>, 4, "e4"),
       FileInfo("file", << "/","d","/","e","5",".","m","k","v" >>, 5, "e5"),
       FileInfo("file", << "/","d","/","m","k","v",".","e","6",".","m","k","v" >>, 6, "e6") >>

\* A folder of one video more than search_in_directory lists: v1.mkv, v2.mkv,
\* ..., and zzz.mkv after them
CatalogueHuge ==
    SubSeq([k \in 1..(SearchListLimit + 1) |->
              IF k <= SearchListLimit
              THEN FileInfo("file", << "/","d","/","v" >> \o NatToDigits(k) \o << ".","m","k","v" >>, k, "h")
              ELSE FileInfo("file", << "/","d","/","z","z","z",".","m","k","v" >>, k, "h")],
           1, SearchListLimit + 1)

\* The "result" members the upstream may send for a method
ResultsFor(method) ==
    CASE method = "Player.GetActivePlayers" ->
            { DPlayers([k \in 1..Len(l) |-> PlayerOf(l[k])]) : l \in PlayerLists }
            \cup { DNull, DPlayers(<< Player(FALSE, 0, "video") >>) }
      [] method = "VideoLibrary.GetEpisodes" ->
            { DEpisodes(l) : l \in EpisodeLists } \cup { DNoEpisodes, DNull }
      [] method = "Files.GetDirectory" ->
            { DFiles(<<>>), DFiles(Catalogue), DFiles(CatalogueMixed), DFiles(CatalogueLong),
              DFiles(CatalogueHuge), DNull }
      [] method \in { "VideoLibrary.GetMovies", "VideoLibrary.GetTVShows", "AudioLibrary.GetSongs" } ->
            { DLimits(2), DText("OK") }
      [] method \in { "Player.GetItem", "Player.GetProperties" } ->
            { DOther, DNull }
      [] OTHER -> { DText("OK") }

\* One HTTP attempt as the upstream and the network decide it.  The commands
\* meet every transport fault and every shape of error object; the queries,
\* whose answer the client reads on, meet the timeout and the complete error
\* object.
Outcomes(method) ==
    LET command == ResultsFor(method) = { DText("OK") }
        errors == IF command THEN ErrObjs ELSE { e \in ErrObjs : e.isDict /\ e.hasMsg }
        faults == IF command
                  THEN { AttemptFault("timeout"), AttemptFault("refused"), AttemptFault("other"),
                         AttemptNotObject }
                  ELSE { AttemptFault("timeout") }
    IN  faults \cup { AttemptNon200, AttemptBadJson }
        \cup { AttemptError(e) : e \in errors }
        \cup { AttemptResult(d) : d \in ResultsFor(method) }

\* The kind of an attempt, for the log of a call
AttemptKind(o) ==
    CASE o.net # "http" -> o.net
      [] ~o.status200   -> "non200"
      [] ~o.jsonOk      -> "badjson"
      [] ~o.bodyDict    -> "notobject"
      [] o.hasError     -> "error"
      [] OTHER          -> "result"

\* A method of KodiClient called directly, the file index on the downloads
\* folder: what it returns.  list_directory, search_in_directory and
\* find_best_match_and_play catch every exception themselves; an exception of
\* the other methods leaves them (opres holds it).
KodiClientCall(name, params, outs) ==
    LET Returned(op) == IF op.st = "need" THEN Waiting(op) ELSE Over(op, op.resp)
    IN  CASE name = "list_directory" ->
                Returned(list_directory(DownloadsPath, params.m["limit"].i, outs, 0))
          [] name = "search_in_directory" ->
                Returned(search_in_directory(DownloadsPath, params.m["query"].s, outs, 0))
          [] name = "find_best_match_and_play" ->
                Returned(find_best_match_and_play(DownloadsPath, params.m["query"].s,
                                                  params.m["auto_play"].b, outs))
          [] name = "format_file_size" ->
                Over(Op("none", "", MArgNone, NoResp, NoExc, 0),
                     format_file_size(params.m["limit"].i, params.m["level"].i))
          [] name = "player_play_pause" -> Returned(player_play_pause(outs))
          [] name = "player_stop" -> Returned(player_stop(outs))
          [] name = "play_episode" ->
                Returned(play_episode(params.m["tvshow_id"].i, params.m["season"].i,
                                      params.m["episode"].i, outs))
          [] name = "set_volume" -> Returned(set_volume(params.m["level"].i, outs))
          [] name = "navigate_menu" -> Returned(navigate_menu(params.m["direction"].s, outs))
          [] name = "scan_library" -> Returned(scan_library(params.m["library_type"].s, outs))
          [] OTHER ->
                Over(Op("none", "", MArgNone, NoResp, NoExc, 0),
                     calculate_match_score(params.m["file_path"].s, params.m["query"].s))

\* The dispatcher of each server, and the client called directly
Execute(s, name, params, outs) ==
    CASE s = "hybrid" -> hybrid_execute_tool(name, params, outs)
      [] s = "server" -> server_execute_tool(name, params, outs)
      [] s = "pure"   -> pure_execute_kodi_tool(name, params, outs)
      [] s = "client" -> KodiClientCall(name, params, outs)
      [] OTHER        -> mcp_call_tool(name, params, outs)

\* Settings.kodi_retry_attempts and Settings.kodi_retry_delay: the defaults and
\* two other configurations
SettingsChoices ==
    { [kodi_retry_attempts |-> 3, kodi_retry_delay |-> 1],
      [kodi_retry_attempts |-> 1, kodi_retry_delay |-> 3],
      [kodi_retry_attempts |-> 5, kodi_retry_delay |-> 2] }

\* ------------------------------------------------------------------------
\* The state machine: one dispatch at a time, one HTTP attempt per step
\* ------------------------------------------------------------------------
VARIABLES
    settings,   \* the configuration read at construction
    server,     \* the dispatcher of the current dispatch
    tool,       \* its tool name
    args,       \* its argument map
    pc,         \* "idle", "calling" (inside _make_request) or "done"
    outs,       \* what each completed _make_request call gave its caller
    sent,       \* the upstream calls started: method and parameters
    req,        \* the call in progress: its attempts and the waits between them
    last,       \* the call that has just completed, until another attempt is made
    opres,      \* the client operation's outcome, when the dispatch is done
    result,     \* the dispatcher's result, when the dispatch is done
    task,       \* the request the transport layer of hybrid_server.py is serving
    clients,    \* sse_manager.clients: the queue of each SSE listener
    connections,\* mcp_manager.connections: the WebSocket listeners
    wsopen,     \* the WebSockets whose peer has not closed
    handlers,   \* the WebSockets whose handler, mcp_websocket, is running
    notified    \* the WebSockets that were sent the event of the current request

\* the state of the transport layer
hubvars == << task, clients, connections, wsopen, handlers, notified >>

vars == << settings, server, tool, args, pc, outs, sent, req, last, opres, result,
           task, clients, connections, wsopen, handlers, notified >>

\* no request is being served: transport, phase ("none", "exec", "ws_bcast",
\* "responded"), whether execute_tool ran, the copy of the connections still to
\* be sent to, the requesting WebSocket, the HTTP status of the answer, the
\* Authorization header of the request
NoTask == [transport |-> "", phase |-> "none", executed |-> FALSE, copy |-> <<>>,
           ws |-> 0, status |-> 0, authorization |-> VNone]

NoReq == [method |-> "", marg |-> MArgNone, hist |-> <<>>, waits |-> <<>>]
NoLast == [method |-> "", hist |-> <<>>, waits |-> <<>>, answer |-> AttemptFault("none"),
           out |-> CallOut("none", NoExc, NoResp)]
NoOp == Op("none", "", MArgNone, NoResp, NoExc, 0)

Init ==
    /\ settings \in SettingsChoices
    /\ server = "hybrid"
    /\ tool = ""
    /\ args = Params(TRUE, [key \in ParamKeys |-> VAbsent])
    /\ pc = "idle"
    /\ outs = <<>>
    /\ sent = <<>>
    /\ req = NoReq
    /\ last = NoLast
    /\ opres = NoOp
    /\ result = ResultRaise(NoExc)
    /\ task = NoTask
    /\ clients = <<>>
    /\ connections = <<>>
    /\ wsopen = {}
    /\ handlers = {}
    /\ notified = {}

\* The dispatcher runs up to its next upstream call, or to its end
Advance(s, name, params, log, started) ==
    LET Step(r) ==
            IF r.done
            THEN /\ pc' = "done"
                 /\ req' = NoReq
                 /\ sent' = started
                 /\ opres' = r.op
                 /\ result' = r.result
            ELSE /\ pc' = "calling"
                 /\ req' = [method |-> r.op.method, marg |-> r.op.marg, hist |-> <<>>, waits |-> <<>>]
                 /\ sent' = Append(started, [method |-> r.op.method, marg |-> r.op.marg])
                 /\ opres' = NoOp
                 /\ result' = ResultRaise(NoExc)
    IN  Step(Execute(s, name, params, log))

\* A caller invokes a tool on one of the servers
Dispatch(s, name, params) ==
    /\ pc = "idle"
    /\ server' = s
    /\ tool' = name
    /\ args' = params
    /\ outs' = <<>>
    /\ last' = NoLast
    /\ Advance(s, name, params, <<>>, <<>>)
    /\ UNCHANGED settings

\* An attempt fails with a retryable exception before the last attempt: tenacity
\* sleeps and calls _make_request again
AttemptRetried(o) ==
    LET p == RequestBody(o, req.method)
        attempt_number == Len(req.hist) + 1
    IN  /\ pc = "calling"
        /\ p.kind = "raise"
        /\ RetryIfExceptionType(p.exc)
        /\ ~StopAfter(attempt_number, settings.kodi_retry_attempts)
        /\ req' = [req EXCEPT !.hist = Append(@, AttemptKind(o)),
                              !.waits = Append(@, WaitExponential(attempt_number))]
        /\ last' = NoLast
        /\ UNCHANGED << settings, server, tool, args, pc, outs, sent, opres, result >>

\* An attempt ends the call: a KodiResponse, an exception that is not retried, or
\* RetryError after the last attempt; the caller goes on with it
AttemptCompleted(o) ==
    LET p == RequestBody(o, req.method)
        attempt_number == Len(req.hist) + 1
        retried == p.kind = "raise" /\ RetryIfExceptionType(p.exc)
        out == IF p.kind = "return" THEN CallOut("ret", NoExc, p.resp)
               ELSE IF retried THEN CallOut("raise", RetryError(p.exc), NoResp)
               ELSE CallOut("raise", p.exc, NoResp)
    IN  /\ pc = "calling"
        /\ retried => StopAfter(attempt_number, settings.kodi_retry_attempts)
        /\ outs' = Append(outs, out)
        /\ last' = [method |-> req.method, hist |-> Append(req.hist, AttemptKind(o)),
                    waits |-> req.waits, answer |-> o, out |-> out]
        /\ Advance(server, tool, args, Append(outs, out), sent)
        /\ UNCHANGED << settings, server, tool, args >>

\* The result goes back to the caller; the server is ready for the next dispatch
Return ==
    /\ pc = "done"
    /\ pc' = "idle"
    /\ server' = "hybrid"
    /\ tool' = ""
    /\ args' = Params(TRUE, [key \in ParamKeys |-> VAbsent])
    /\ outs' = <<>>
    /\ sent' = <<>>
    /\ req' = NoReq
    /\ last' = NoLast
    /\ opres' = NoOp
    /\ result' = ResultRaise(NoExc)
    /\ UNCHANGED settings

Next ==
    \/ \E s \in Servers, name \in ToolNames : \E params \in ArgumentMaps(name) :
            Dispatch(s, name, params) /\ UNCHANGED hubvars
    \/ \E o \in Outcomes(req.method) : AttemptRetried(o) /\ UNCHANGED hubvars
    \/ \E o \in Outcomes(req.method) : AttemptCompleted(o) /\ UNCHANGED hubvars
    \/ Return /\ UNCHANGED hubvars

Spec == Init /\ [][Next]_vars

\* ------------------------------------------------------------------------
\* The methods of KodiClient, called directly
\* ------------------------------------------------------------------------
\* The limits, and the lengths of the generated file names and queries
MaxLimit == 6
MaxNameLen == 3
MaxQueryLen == 2
\* the byte counts are n * 1024^shift, shift up to MaxShift
MaxShift == 5

\* The calls: every limit, the queries below, the byte counts n * 1024^shift
\* ("limit" holds n and "level" holds shift), the two player actions, every
\* episode number up to one past the longest listing, volumes on both sides of each
\* bound, directions and library types in either case, and for the score every short
\* name over h, D and the dot and every short query over h, d and the space,
\* beside the names of the catalogue
ClientCalls ==
    LET Size(n, shift) ==
            Params(TRUE, [key \in ParamKeys |->
                            CASE key = "limit" -> VInt(n)
                              [] key = "level" -> VInt(shift)
                              [] OTHER         -> VAbsent])
        Arg(limit, query, auto_play, filename) ==
            Params(TRUE, [key \in ParamKeys |->
                            CASE key = "limit"     -> VInt(limit)
                              [] key = "query"     -> VStr(query)
                              [] key = "auto_play" -> VBool(auto_play)
                              [] key = "file_path" -> VStr(filename)
                              [] OTHER             -> VAbsent])
        One(key, v) == Params(TRUE, [k \in ParamKeys |-> IF k = key THEN v ELSE VAbsent])
        Strings(letters, n) == UNION { [1..k -> letters] : k \in 0..n }
        Queries == { <<>>, << " " >>, << "m","k","v" >>, << "a","v","e","n","g","e","r","s" >>, << " ","A","v","e","n","g","e","r","s"," " >>, << "/","d" >>, << "z","z","z" >>, << "s","a","m","p","l","e" >>, << "t","h","e"," ","m","a","t","r","i","x" >>, << "a" >> }
        Names == { << "A","v","e","n","g","e","r","s",".","E","n","d","g","a","m","e",".","1","0","8","0","p",".","m","k","v" >>, << "a","v","e","n","g","e","r","s","_","s","a","m","p","l","e",".","m","p","4" >>, << "T","h","e",".","M","a","t","r","i","x",".","7","2","0","p",".","m","k","v" >>, << "d","e","m","o","-","H","D",".","a","v","i" >>, << "t","r","a","i","l","e","r"," ","p","r","e","v","i","e","w","_","4","K",".","w","e","b","m" >> }
    IN  { [name |-> "list_directory", params |-> Arg(limit, <<>>, FALSE, <<>>)] :
            limit \in 0..MaxLimit }
        \cup { [name |-> "search_in_directory", params |-> Arg(0, q, FALSE, <<>>)] : q \in Queries }
        \cup { [name |-> "find_best_match_and_play", params |-> Arg(0, q, a, <<>>)] :
                 q \in Queries, a \in BOOLEAN }
        \cup { [name |-> "format_file_size", params |-> Size(n, shift)] :
                 n \in (0..3) \cup (510..514) \cup (1020..1030) \cup { 1280, 1536, 2047, 2048 },
                 shift \in 0..MaxShift }
        \cup { [name |-> "format_file_size", params |-> Size(n, 0)] :
                 n \in { 1048575, 1048576, 1073741823, 1073741824 } }
        \cup { [name |-> name, params |-> One("level", VAbsent)] :
                 name \in { "player_play_pause", "player_stop" } }
        \cup { [name |-> "play_episode",
                 params |-> Params(TRUE, [key \in ParamKeys |->
                                CASE key \in { "tvshow_id", "season" } -> VInt(1)
                                  [] key = "episode" -> VInt(episode)
                                  [] OTHER           -> VAbsent])] :
                 episode \in 1..(MaxEpisodes + 1) }
        \cup { [name |-> "set_volume", params |-> One("level", VInt(level))] :
                 level \in { 0 - 1, 0, 50, 100, 101 } }
        \cup { [name |-> "navigate_menu", params |-> One("direction", VStr(d))] :
                 d \in { << "u","p" >>, << "B","a","c","k" >>, << "S","E","L","E","C","T" >>,
                         <<>>, << "z","z" >>, << "u","p"," " >>, << "e","n","t","e","r" >> } }
        \cup { [name |-> "scan_library", params |-> One("library_type", VStr(t))] :
                 t \in { << "v","i","d","e","o" >>, << "A","U","D","I","O" >>,
                         << "V","i","d","e","o" >>, << "p","h","o","t","o" >>, <<>>,
                         << "v","i","d","e","o","s" >> } }
        \cup { [name |-> "calculate_match_score", params |-> Arg(0, q, FALSE, f)] :
                 q \in Queries \cup Strings({ "h", "d", " " }, MaxQueryLen),
                 f \in Names \cup Strings({ "h", "D", "." }, MaxNameLen) }

\* A caller invokes one of the methods, with the default settings
ClientInit == Init /\ settings = [kodi_retry_attempts |-> 3, kodi_retry_delay |-> 1]

ClientNext ==
    \/ \E call \in ClientCalls : Dispatch("client", call.name, call.params) /\ UNCHANGED hubvars
    \/ \E o \in Outcomes(req.method) : AttemptRetried(o) /\ UNCHANGED hubvars
    \/ \E o \in Outcomes(req.method) : AttemptCompleted(o) /\ UNCHANGED hubvars
    \/ Return /\ UNCHANGED hubvars

ClientSpec == ClientInit /\ [][ClientNext]_vars

\* ------------------------------------------------------------------------
\* The transport layer of hybrid_server.py: REST, JSON-RPC and WebSocket
\* requests, SSE and WebSocket listeners, on the one event loop of the process
\* ------------------------------------------------------------------------
\* The listeners and the queued events the model follows
MaxSse == 1
MaxWs == 2
MaxQueue == 1
MaxBeats == 1

Transports == { "rest", "jsonrpc", "ws" }

\* The tool calls sent through the transports: a volume change, a call that
\* lacks its parameter, and a name that MCP_TOOLS does not hold
HubCalls ==
    { [name |-> "set_volume", params |-> p] :
        p \in { a \in ArgumentMaps("set_volume") :
                  a.isDict /\ a.m["level"] \in { VInt(50), VAbsent } } }
    \cup { [name |-> "reboot", params |-> Params(TRUE, [key \in ParamKeys |-> VAbsent])] }

\* {"tool": tool_name, "result": result}, the data of a tool_executed event
ToolExecuted(tool_name, res) == [event |-> "tool_executed", tool |-> tool_name, result |-> res]

\* list.remove(x) on a list that holds x once
Remove(l, x) == SelectSeq(l, LAMBDA y : y # x)

\* execute_tool is a plain function called from the coroutine: until it returns
\* (its HTTP attempts and tenacity's sleeps included) the event loop runs no
\* other task.  The loop is free between requests and while a broadcast awaits
\* connection.send_text.
LoopFree == task.phase \in { "none", "ws_bcast" }

\* A request arrives: POST /tools/{tool_name}, tools/call on POST /, or
\* tools/call on the WebSocket w.  A name outside MCP_TOOLS is answered at once
\* (404, or a JSON-RPC error); otherwise execute_tool starts.
HubRequest(transport, call, w) ==
    /\ task.phase = "none"
    /\ pc = "idle"
    /\ IF transport = "ws" THEN w \in wsopen /\ \E k \in 1..Len(connections) : connections[k] = w
                           ELSE w = 0
    /\ \A k \in 1..Len(clients) : Len(clients[k].q) < MaxQueue
    /\ IF call.name \in Registry("hybrid")
       THEN /\ Dispatch("hybrid", call.name, call.params)
            /\ task' = [NoTask EXCEPT !.transport = transport, !.phase = "exec",
                                      !.executed = TRUE, !.ws = w]
       ELSE /\ task' = [NoTask EXCEPT !.transport = transport, !.phase = "responded", !.ws = w,
                                      !.status = IF transport = "rest" THEN 404 ELSE 200]
            /\ UNCHANGED << settings, server, tool, args, pc, outs, sent, req, last, opres, result >>
    /\ UNCHANGED << clients, connections, wsopen, handlers, notified >>

\* call_tool_rest after execute_tool (lines 441-447): sse_manager.broadcast puts
\* the event in every queue (put_nowait on an unbounded asyncio.Queue), then
\* mcp_manager.broadcast copies the connections
RestBroadcast ==
    /\ task.phase = "exec" /\ task.transport = "rest" /\ pc = "done"
    /\ clients' = [k \in 1..Len(clients) |->
                      [clients[k] EXCEPT !.q = Append(@, ToolExecuted(tool, result))]]
    /\ task' = [task EXCEPT !.phase = "ws_bcast", !.copy = connections]
    /\ UNCHANGED << settings, server, tool, args, pc, outs, sent, req, last, opres, result,
                    connections, wsopen, handlers, notified >>

\* One turn of the loop of MCPConnectionManager.broadcast (lines 49-53): await
\* connection.send_text succeeds or raises; the except clause removes the
\* connection, and list.remove raises ValueError, out of broadcast and out of
\* call_tool_rest, when the connection is in the list no more (status 500 from
\* unhandled_exception_handler).  A send on a socket whose handler has ended
\* raises; a send that raises leaves the socket closed.
WsSend(o) ==
    /\ task.phase = "ws_bcast" /\ task.copy # <<>>
    /\ o = "sent" => Head(task.copy) \in handlers
    /\ LET connection == Head(task.copy)
           listed == \E k \in 1..Len(connections) : connections[k] = connection
       IN  CASE o = "sent" ->
                    /\ notified' = notified \cup { connection }
                    /\ task' = [task EXCEPT !.copy = Tail(@)]
                    /\ UNCHANGED << connections, wsopen >>
             [] o = "raise" /\ listed ->
                    /\ connections' = Remove(connections, connection)
                    /\ wsopen' = wsopen \ { connection }
                    /\ task' = [task EXCEPT !.copy = Tail(@)]
                    /\ UNCHANGED notified
             [] OTHER ->
                    /\ task' = [task EXCEPT !.phase = "responded", !.copy = <<>>, !.status = 500]
                    /\ wsopen' = wsopen \ { connection }
                    /\ UNCHANGED << connections, notified >>
    /\ UNCHANGED << settings, server, tool, args, pc, outs, sent, req, last, opres, result,
                    clients, handlers >>

\* call_tool_rest, lines 451-452: the status and the result
RestRespond ==
    /\ task.phase = "ws_bcast" /\ task.copy = <<>>
    /\ task' = [task EXCEPT !.phase = "responded",
                            !.status = IF result.success THEN 200 ELSE 400]
    /\ UNCHANGED << settings, server, tool, args, pc, outs, sent, req, last, opres, result,
                    clients, connections, wsopen, handlers, notified >>

\* mcp_jsonrpc_endpoint, lines 574-587: the result goes back in the JSON-RPC answer
JsonRpcRespond ==
    /\ task.phase = "exec" /\ task.transport = "jsonrpc" /\ pc = "done"
    /\ task' = [task EXCEPT !.phase = "responded", !.status = 200]
    /\ UNCHANGED << settings, server, tool, args, pc, outs, sent, req, last, opres, result,
                    clients, connections, wsopen, handlers, notified >>

\* mcp_websocket, lines 720-743: the answer is sent on the requesting socket; an
\* exception of send_text ends the handler, which disconnects the socket
WsRespond(o) ==
    /\ task.phase = "exec" /\ task.transport = "ws" /\ pc = "done"
    /\ task' = [task EXCEPT !.phase = "responded"]
    /\ IF o = "raise"
       THEN /\ connections' = Remove(connections, task.ws)
            /\ wsopen' = wsopen \ { task.ws }
            /\ handlers' = handlers \ { task.ws }
       ELSE UNCHANGED << connections, wsopen, handlers >>
    /\ UNCHANGED << settings, server, tool, args, pc, outs, sent, req, last, opres, result,
                    clients, notified >>

\* MCP_TOOLS (lines 130-288): for each tool, in the order of the dict, its
\* parameters with their declared type, enum, minimum, maximum and required
\* flag; has* tells whether the key is in the dict of the parameter
MCP_TOOLS ==
    LET P(name, type, hasEnum, enum, hasMin, minimum, hasMax, maximum, hasReq, required) ==
            [name |-> name, type |-> type, hasEnum |-> hasEnum, enum |-> enum,
             hasMinimum |-> hasMin, minimum |-> minimum, hasMaximum |-> hasMax,
             maximum |-> maximum, hasRequired |-> hasReq, required |-> required]
        Plain(name, type, required) == P(name, type, FALSE, <<>>, FALSE, 0, FALSE, 0, TRUE, required)
        T(name, parameters) == [name |-> name, parameters |-> parameters]
    IN  << T("get_now_playing", <<>>),
           T("player_play_pause", <<>>),
           T("player_stop", <<>>),
           T("set_volume", << P("level", "integer", FALSE, <<>>, TRUE, 0, TRUE, 100, TRUE, TRUE) >>),
           T("navigate_menu",
             << P("direction", "string", TRUE,
                  << "up", "down", "left", "right", "select", "back" >>,
                  FALSE, 0, FALSE, 0, TRUE, TRUE) >>),
           T("search_movies", << Plain("query", "string", TRUE) >>),
           T("list_recent_movies",
             << P("limit", "integer", FALSE, <<>>, TRUE, 1, TRUE, 100, TRUE, FALSE) >>),
           T("list_tv_shows", <<>>),
           T("play_movie", << Plain("movie_id", "integer", TRUE) >>),
           T("play_episode", << Plain("tvshow_id", "integer", TRUE),
                                Plain("season", "integer", TRUE),
                                Plain("episode", "integer", TRUE) >>),
           T("get_library_stats", <<>>),
           T("scan_library",
             << P("library_type", "string", TRUE, << "video", "audio" >>,
                  FALSE, 0, FALSE, 0, TRUE, FALSE) >>),
           T("list_downloads",
             << P("limit", "integer", FALSE, <<>>, TRUE, 1, TRUE, 100, TRUE, FALSE) >>),
           T("play_file", << Plain("file_path", "string", TRUE) >>),
           T("search_downloads", << Plain("query", "string", TRUE) >>),
           T("find_and_play", << Plain("query", "string", TRUE),
                                 Plain("auto_play", "boolean", FALSE) >>) >>

\* The tools of a tools/list answer (lines 518-548): each parameter keeps its
\* type; enum, minimum and maximum are copied when param_info.get(...) is true
\* in Python, that is present and neither empty nor 0; required holds the
\* parameters whose required flag is true.  The descriptions are left out.
ToolsList(registry) ==
    [t \in 1..Len(registry) |->
        [name |-> registry[t].name,
         properties |->
            [k \in 1..Len(registry[t].parameters) |->
                LET param_info == registry[t].parameters[k]
                    enum == param_info.hasEnum /\ param_info.enum # <<>>
                    minimum == param_info.hasMinimum /\ param_info.minimum # 0
                    maximum == param_info.hasMaximum /\ param_info.maximum # 0
                IN  [name |-> param_info.name, type |-> param_info.type,
                     hasEnum |-> enum,
                     enum |-> IF enum THEN param_info.enum ELSE <<>>,
                     hasMinimum |-> minimum,
                     minimum |-> IF minimum THEN param_info.minimum ELSE 0,
                     hasMaximum |-> maximum,
                     maximum |-> IF maximum THEN param_info.maximum ELSE 0]],
         required |->
            LET names == [k \in 1..Len(registry[t].parameters) |-> registry[t].parameters[k]]
            IN  SelectSeq(names, LAMBDA param_info : param_info.hasRequired /\ param_info.required)]]

\* tools/list on POST / (lines 517-556): the answer carries the listing
JsonRpcToolsList ==
    /\ task.phase = "none"
    /\ pc = "idle"
    /\ pc' = "done"
    /\ tool' = "tools/list"
    /\ result' = ToolsList(MCP_TOOLS)
    /\ task' = [NoTask EXCEPT !.transport = "jsonrpc", !.phase = "responded", !.status = 200]
    /\ UNCHANGED << settings, server, args, outs, sent, req, last, opres,
                    clients, connections, wsopen, handlers, notified >>

\* The request is over
HubReturn ==
    /\ task.phase = "responded"
    /\ task' = NoTask
    /\ notified' = {}
    /\ IF pc = "done" THEN Return
       ELSE UNCHANGED << settings, server, tool, args, pc, outs, sent, req, last, opres, result >>
    /\ UNCHANGED << clients, connections, wsopen, handlers >>

\* GET /sse or GET /: SSEManager.connect appends a new queue
SseConnect ==
    /\ LoopFree /\ Len(clients) < MaxSse
    /\ clients' = Append(clients, [q |-> <<>>, beats |-> 0])
    /\ UNCHANGED << settings, server, tool, args, pc, outs, sent, req, last, opres, result,
                    task, connections, wsopen, handlers, notified >>

\* The generator is cancelled: SSEManager.disconnect removes the queue
SseDisconnect(i) ==
    /\ LoopFree
    /\ clients' = SubSeq(clients, 1, i - 1) \o SubSeq(clients, i + 1, Len(clients))
    /\ UNCHANGED << settings, server, tool, args, pc, outs, sent, req, last, opres, result,
                    task, connections, wsopen, handlers, notified >>

\* The generator takes an event from its queue and yields it
SseYield(i) ==
    /\ LoopFree /\ clients[i].q # <<>>
    /\ clients' = [clients EXCEPT ![i].q = Tail(@)]
    /\ UNCHANGED << settings, server, tool, args, pc, outs, sent, req, last, opres, result,
                    task, connections, wsopen, handlers, notified >>

\* asyncio.wait_for times out on an empty queue: the generator yields a heartbeat
Heartbeat(i) ==
    /\ LoopFree /\ clients[i].q = <<>> /\ clients[i].beats < MaxBeats
    /\ clients' = [clients EXCEPT ![i].beats = @ + 1]
    /\ UNCHANGED << settings, server, tool, args, pc, outs, sent, req, last, opres, result,
                    task, connections, wsopen, handlers, notified >>

\* A WebSocket opens on /mcp (lines 665-685): MCPConnectionManager.connect
\* appends it, then the handler sends the initialisation message, before its
\* try block: when that send raises, the peer being gone already, the handler
\* ends there and nothing removes the socket from the list
WsConnect(w, o) ==
    /\ LoopFree /\ w \notin wsopen /\ w \notin handlers
    /\ \A k \in 1..Len(connections) : connections[k] # w
    /\ \A k \in 1..Len(task.copy) : task.copy[k] # w
    /\ connections' = Append(connections, w)
    /\ IF o = "sent"
       THEN wsopen' = wsopen \cup { w } /\ handlers' = handlers \cup { w }
       ELSE UNCHANGED << wsopen, handlers >>
    /\ UNCHANGED << settings, server, tool, args, pc, outs, sent, req, last, opres, result,
                    task, clients, notified >>

\* The peer of a WebSocket goes away
WsPeerClose(w) ==
    /\ LoopFree /\ w \in wsopen
    /\ wsopen' = wsopen \ { w }
    /\ UNCHANGED << settings, server, tool, args, pc, outs, sent, req, last, opres, result,
                    task, clients, connections, handlers, notified >>

\* receive_text raises WebSocketDisconnect in the handler of a closed socket:
\* MCPConnectionManager.disconnect removes it if the list holds it, and the
\* handler ends (lines 757-761, 42-45)
WsHandlerDisconnect(w) ==
    /\ LoopFree /\ w \notin wsopen /\ w \in handlers
    /\ connections' = Remove(connections, w)
    /\ handlers' = handlers \ { w }
    /\ UNCHANGED << settings, server, tool, args, pc, outs, sent, req, last, opres, result,
                    task, clients, wsopen, notified >>

\* The process starts with the default settings and no listener
HubInit == Init /\ settings = [kodi_retry_attempts |-> 3, kodi_retry_delay |-> 1]

HubNext ==
    \/ \E transport \in Transports, call \in HubCalls, w \in 0..MaxWs :
            HubRequest(transport, call, w)
    \/ \E o \in Outcomes(req.method) : AttemptRetried(o) /\ UNCHANGED hubvars
    \/ \E o \in Outcomes(req.method) : AttemptCompleted(o) /\ UNCHANGED hubvars
    \/ RestBroadcast
    \/ \E o \in { "sent", "raise" } : WsSend(o)
    \/ RestRespond
    \/ JsonRpcRespond
    \/ JsonRpcToolsList
    \/ \E o \in { "sent", "raise" } : WsRespond(o)
    \/ HubReturn
    \/ SseConnect
    \/ \E i \in 1..Len(clients) : SseDisconnect(i)
    \/ \E i \in 1..Len(clients) : SseYield(i)
    \/ \E i \in 1..Len(clients) : Heartbeat(i)
    \/ \E w \in 1..MaxWs, o \in { "sent", "raise" } : WsConnect(w, o)
    \/ \E w \in 1..MaxWs : WsPeerClose(w)
    \/ \E w \in 1..MaxWs : WsHandlerDisconnect(w)

HubSpec == HubInit /\ [][HubNext]_vars

\* ------------------------------------------------------------------------
\* Properties
\* ------------------------------------------------------------------------
\* C1: whatever the tool name, the argument map and the upstream behaviour, a
\* dispatch that is over has returned a structured result with a success flag:
\* no exception has left the dispatcher.
C1_DispatchAlwaysReturns ==
    pc = "done" => (result.kind = "return" /\ result.success \in BOOLEAN)

\* C1 witness: an exhausted retry raised through the client operation, and the
\* hybrid dispatcher still returned a failure result.
C1_Witness ==
    /\ pc = "done"
    /\ server = "hybrid"
    /\ opres.st = "raise"
    /\ opres.exc.cls = "RetryError"
    /\ result.kind = "return"
    /\ ~result.success

\* C2: a dispatch of a name that is not in the server's registry is over at
\* once, with success false and the unknown-tool message, and no upstream
\* request has been sent.
C2_UnknownToolRejected ==
    (pc # "idle" /\ tool \notin Registry(server)) =>
        /\ pc = "done"
        /\ sent = <<>>
        /\ result.kind = "return"
        /\ ~result.success
        /\ result.error = UnknownTool(tool)

\* C2 witness: an unregistered name dispatched with a body that is no object.
C2_Witness ==
    /\ pc = "done"
    /\ tool = "reboot"
    /\ server = "server"
    /\ ~args.isDict
    /\ ~result.success
    /\ sent = <<>>

\* C3: when every attempt of an upstream call times out, the call makes exactly
\* 3 attempts and then returns a KodiResponse with success false and an error
\* message (it does not raise).
C3_TimeoutsReturnFailure ==
    /\ (pc = "calling" /\ \A k \in 1..Len(req.hist) : req.hist[k] = "timeout")
            => Len(req.hist) < 3
    /\ (last.method # "" /\ \A k \in 1..Len(last.hist) : last.hist[k] = "timeout") =>
            /\ Len(last.hist) = 3
            /\ last.out.st = "ret"
            /\ ~last.out.resp.success
            /\ ErrNonEmpty(last.out.resp.error)

\* C4: a non-200 status is retried like a timeout: a call never ends on a
\* non-200 answer before its third attempt.
C4_Non200Retried ==
    (last.method # "" /\ last.hist[Len(last.hist)] = "non200") => Len(last.hist) = 3

\* C5: a 200 answer with an error object ends the call at that attempt, never
\* followed by another attempt, and the call returns success false with the
\* object's message as error and its code as error_code.
C5_ErrorObjectNotRetried ==
    /\ \A k \in 1..Len(req.hist) : req.hist[k] # "error"
    /\ (last.method # "" /\ AttemptKind(last.answer) = "error" /\ last.answer.err.isDict) =>
            /\ last.hist[Len(last.hist)] = "error"
            /\ \A k \in 1..(Len(last.hist) - 1) : last.hist[k] # "error"
            /\ last.out.st = "ret"
            /\ ~last.out.resp.success
            /\ last.out.resp.error =
                  (IF last.answer.err.hasMsg THEN ErrMsg(<< last.answer.err.msg >>) ELSE ErrNone)
            /\ last.out.resp.error_code =
                  (IF last.answer.err.hasCode THEN CodeInt(last.answer.err.code) ELSE CodeNone)

\* C5 witness: the first answer of a call carries an error object with a
\* message and the code -32601; the call is over after one attempt.
C5_Witness ==
    /\ last.method # ""
    /\ last.hist = << "error" >>
    /\ last.answer.err.hasMsg
    /\ last.out.st = "ret"
    /\ last.out.resp.error_code = CodeInt(-32601)

\* C6: a 200 answer whose body is not JSON ends the call at that attempt, never
\* followed by another attempt, with a KodiAPIError, which is not one of the
\* retryable connection errors.
C6_BadJsonIsApiError ==
    /\ \A k \in 1..Len(req.hist) : req.hist[k] # "badjson"
    /\ (last.method # "" /\ AttemptKind(last.answer) = "badjson") =>
            /\ last.out.st = "raise"
            /\ last.out.exc.cls = "KodiAPIError"
            /\ ~RetryIfExceptionType(last.out.exc)

\* C6 witness: the first answer of a call is not JSON; the dispatch has failed
\* after that one attempt.
C6_Witness ==
    /\ pc = "done"
    /\ last.hist = << "badjson" >>
    /\ last.out.exc.cls = "KodiAPIError"
    /\ ~result.success

C8_MissingParamNoRequest ==
    (/\ pc # "idle"
     /\ tool \in Registry(server)
     /\ args.isDict
     /\ \E k \in 1..Len(RequiredParams(tool)) : args.m[RequiredParams(tool)[k]].t = "absent") =>
        /\ pc = "done"
        /\ sent = <<>>
        /\ result.kind = "return"
        /\ ~result.success

\* C8 witness: navigate_menu dispatched on the hybrid server without direction.
C8_Witness ==
    /\ pc = "done"
    /\ server = "hybrid"
    /\ tool = "navigate_menu"
    /\ args.isDict
    /\ args.m["direction"].t = "absent"
    /\ sent = <<>>
    /\ ~result.success

\* C9: the failure result of a dispatch that omits a required parameter carries
\* an error message that names the first missing parameter.
C9_ErrorNamesParameter ==
    LET missing == IF ~args.isDict THEN {}
                   ELSE { k \in 1..Len(RequiredParams(tool)) :
                            args.m[RequiredParams(tool)[k]].t = "absent" }
        first == CHOOSE k \in missing : \A j \in missing : k <= j
    IN  (pc = "done" /\ tool \in Registry(server) /\ missing # {}) =>
            /\ result.kind = "return"
            /\ ~result.error.none
            /\ \E j \in 1..Len(result.error.parts) :
                    result.error.parts[j] = RequiredParams(tool)[first]

\* C10: every KodiResponse is populated one way or the other: success true
\* comes with no error and no error_code, success false with a non-empty
\* error message.
C10_KodiResponsePopulated ==
    LET Populated(r) == IF r.success THEN r.error.none /\ r.error_code.t = "none"
                        ELSE ErrNonEmpty(r.error)
    IN  /\ \A k \in 1..Len(outs) : outs[k].st = "ret" => Populated(outs[k].resp)
        /\ (pc = "done" /\ opres.st = "ret") => Populated(opres.resp)

\* C11: whatever the transport, the step in which a request leaves execute_tool
\* puts a tool_executed event with the tool name and the result in the queue of
\* every SSE listener connected at that time, and takes every connected
\* WebSocket listener as a recipient of the notification.
C11_EveryExecutionBroadcast ==
    [][(task.phase = "exec" /\ task'.phase # "exec")
        => /\ Len(clients') = Len(clients)
           /\ \A k \in 1..Len(clients) :
                 clients'[k].q = Append(clients[k].q, ToolExecuted(tool, result))
           /\ (connections # <<>> => task'.copy = connections)]_vars

\* C12: a REST request whose tool has run completes with the tool result (status
\* 200 or 400), whatever the listeners do during its broadcast.
C12_ListenerNeverFailsRequest ==
    (task.phase = "responded" /\ task.transport = "rest" /\ task.executed)
        => task.status \in { 200, 400 }

\* C13: while an upstream call of a request is in its retry backoff, the
\* heartbeat of a connected SSE listener that is due can still be sent.
C13_BackoffIsLocal ==
    (pc = "calling" /\ req.waits # <<>> /\ clients # <<>>
        /\ clients[1].q = <<>> /\ clients[1].beats < MaxBeats)
        => ENABLED Heartbeat(1)

\* ------------------------------------------------------------------------
\* The API key of hybrid_server.py
\* ------------------------------------------------------------------------
\* verify_api_key (lines 120-127): 0 when the request goes on, or the status of
\* the HTTPException
verify_api_key(api_key, authorization) ==
    LET text == authorization.s
        spaces == { k \in 1..Len(text) : text[k] = " " }
        token == SubSeq(text, (CHOOSE k \in spaces : \A i \in spaces : k <= i) + 1, Len(text))
    IN  IF api_key.t # "str" \/ api_key.s = <<>> THEN 0
        ELSE IF authorization.t # "str" \/ text = <<>>
                \/ ~StartsWith(Lower(text), << "b","e","a","r","e","r"," " >>)
        THEN 401
        ELSE IF token # api_key.s THEN 403
        ELSE 0

\* The endpoints: POST /tools/{name}, POST /, the WebSocket /mcp, GET /sse, GET /
Endpoints == Transports \cup { "sse", "root" }

\* the handlers declared with _=Depends(verify_api_key) (lines 430, 455)
Guarded(endpoint) == endpoint \in { "rest", "sse" }

\* settings.api_key when it is configured, and the headers a request may carry
ApiKey == VStr(<< "k" >>)
Headers ==
    { VNone, VStr(<< "B","a","s","i","c"," ","k" >>), VStr(<< "B","e","a","r","e","r"," ","x" >>), VStr(<< "B","e","a","r","e","r"," ","k" >>), VStr(<< "b","e","a","r","e","r"," ","k" >>) }

\* A tool call arrives with its Authorization header (on the WebSocket: the
\* header of the handshake, which mcp_websocket does not read).  FastAPI
\* resolves the dependency of a guarded handler before the handler runs.
AuthRequest(transport, call, w, authorization) ==
    LET denied == IF Guarded(transport) THEN verify_api_key(settings.api_key, authorization)
                  ELSE 0
    IN  /\ task.phase = "none"
        /\ pc = "idle"
        /\ IF transport = "ws"
           THEN w \in wsopen /\ \E k \in 1..Len(connections) : connections[k] = w
           ELSE w = 0
        /\ \A k \in 1..Len(clients) : Len(clients[k].q) < MaxQueue
        /\ IF denied = 0 /\ call.name \in Registry("hybrid")
           THEN /\ Dispatch("hybrid", call.name, call.params)
                /\ task' = [NoTask EXCEPT !.transport = transport, !.phase = "exec",
                                          !.executed = TRUE, !.ws = w,
                                          !.authorization = authorization]
           ELSE /\ task' = [NoTask EXCEPT !.transport = transport, !.phase = "responded",
                                          !.ws = w, !.authorization = authorization,
                                          !.status = IF denied # 0 THEN denied
                                                     ELSE IF transport = "rest" THEN 404
                                                     ELSE 200]
                /\ UNCHANGED << settings, server, tool, args, pc, outs, sent, req, last,
                                opres, result >>
        /\ UNCHANGED << clients, connections, wsopen, handlers, notified >>

\* GET /sse (sse_endpoint) or GET / (mcp_sse_endpoint) with its header: the
\* stream opens, SSEManager.connect appends a queue, unless the dependency raised
AuthSseConnect(endpoint, authorization) ==
    LET denied == IF Guarded(endpoint) THEN verify_api_key(settings.api_key, authorization)
                  ELSE 0
    IN  /\ task.phase = "none" /\ pc = "idle"
        /\ endpoint \in { "sse", "root" }
        /\ Len(clients) < MaxSse
        /\ clients' = IF denied = 0 THEN Append(clients, [q |-> <<>>, beats |-> 0])
                      ELSE clients
        /\ task' = [NoTask EXCEPT !.transport = endpoint, !.phase = "responded",
                                  !.authorization = authorization,
                                  !.status = IF denied = 0 THEN 200 ELSE denied]
        /\ UNCHANGED << settings, server, tool, args, pc, outs, sent, req, last, opres, result,
                        connections, wsopen, handlers, notified >>

\* The process starts with or without an API key
AuthInit ==
    /\ settings \in { [kodi_retry_attempts |-> 3, kodi_retry_delay |-> 1, api_key |-> k] :
                        k \in { VNone, ApiKey } }
    /\ server = "hybrid"
    /\ tool = ""
    /\ args = Params(TRUE, [key \in ParamKeys |-> VAbsent])
    /\ pc = "idle"
    /\ outs = <<>>
    /\ sent = <<>>
    /\ req = NoReq
    /\ last = NoLast
    /\ opres = NoOp
    /\ result = ResultRaise(NoExc)
    /\ task = NoTask
    /\ clients = <<>>
    /\ connections = <<>>
    /\ wsopen = {}
    /\ handlers = {}
    /\ notified = {}

AuthNext ==
    \/ \E transport \in Transports, call \in HubCalls, w \in 0..MaxWs, authorization \in Headers :
            AuthRequest(transport, call, w, authorization)
    \/ \E endpoint \in Endpoints, authorization \in Headers : AuthSseConnect(endpoint, authorization)
    \/ \E o \in Outcomes(req.method) : AttemptRetried(o) /\ UNCHANGED hubvars
    \/ \E o \in Outcomes(req.method) : AttemptCompleted(o) /\ UNCHANGED hubvars
    \/ RestBroadcast
    \/ \E o \in { "sent", "raise" } : WsSend(o)
    \/ RestRespond
    \/ JsonRpcRespond
    \/ \E o \in { "sent", "raise" } : WsRespond(o)
    \/ HubReturn
    \/ \E i \in 1..Len(clients) : SseYield(i)
    \/ \E w \in 1..MaxWs, o \in { "sent", "raise" } : WsConnect(w, o)

AuthSpec == AuthInit /\ [][AuthNext]_vars

\* C24: when an API key is configured, no tool is executed and no event stream
\* is opened for a request that does not present the valid Bearer token, on any
\* endpoint (POST /tools/{name}, GET /sse, POST /, GET /, WebSocket /mcp); a
\* missing or malformed header is rejected with 401 and a wrong token with 403.
C24_NoTokenNoService ==
    LET header == task.authorization
        bearer == header.t = "str" /\ Len(header.s) >= 7
                  /\ Lower(SubSeq(header.s, 1, 7)) = << "b","e","a","r","e","r"," " >>
        valid == bearer /\ SubSeq(header.s, 8, Len(header.s)) = settings.api_key.s
    IN  (settings.api_key = ApiKey /\ task.phase # "none" /\ ~valid)
        => /\ ~task.executed
           /\ task.phase = "responded"
           /\ task.status = IF bearer THEN 403 ELSE 401

C15_ListingFailureIsAccessError ==
    (pc = "done" /\ server = "client" /\ tool = "list_directory"
        /\ outs # <<>> /\ (outs[1].st = "raise" \/ ~outs[1].resp.success))
    => /\ ~result.success
       /\ result.data = DNull
       /\ result.error_code = CodeName("DIRECTORY_ACCESS_ERROR")

\* C16: search_in_directory and find_best_match_and_play called with an empty
\* or whitespace-only query return success=false at once, and no request is
\* sent to the upstream.
C16_BlankQuerySendsNothing ==
    (server = "client" /\ tool \in { "search_in_directory", "find_best_match_and_play" }
        /\ pc # "idle" /\ \A k \in 1..Len(args.m["query"].s) : args.m["query"].s[k] = " ")
    => /\ pc = "done"
       /\ sent = <<>>
       /\ outs = <<>>
       /\ ~result.success

\* find_best_match_and_play was called with a query of one space and auto_play
C16_Witness ==
    /\ server = "client" /\ tool = "find_best_match_and_play" /\ pc = "done"
    /\ args.m["query"].s = << " " >> /\ args.m["auto_play"].b
    /\ ~result.success /\ sent = <<>>

C17_WitnessPath ==
    /\ pc = "done" /\ server = "client" /\ tool = "search_in_directory"
    /\ args.m["query"].s = << "/","d" >>
    /\ outs # <<>> /\ outs[1].st = "ret" /\ outs[1].resp.success
    /\ outs[1].resp.data.files = CatalogueMixed
    /\ result.success /\ result.data.total = 5

\* C18: find_best_match_and_play with auto_play=true, when no file matches the
\* query, returns success=false with the error code NO_MATCH_FOUND and never
\* sends a Player.Open request.
C18_NoMatchNeverPlays ==
    (pc = "done" /\ server = "client" /\ tool = "find_best_match_and_play"
        /\ args.m["auto_play"].b /\ Strip(args.m["query"].s) # <<>>
        /\ outs # <<>> /\ outs[1].st = "ret" /\ outs[1].resp.success)
    => LET d == outs[1].resp.data
           upstream == IF d.kind = "dict" /\ d.hasFiles THEN d.files ELSE <<>>
           videos == { k \in 1..Len(upstream) :
                         upstream[k].filetype = "file" /\ IsVideoPath(upstream[k].file) }
           listed == { k \in videos : Cardinality({ i \in videos : i <= k }) <= 100 }
           matching == { k \in listed :
                           Contains(Lower(upstream[k].file), Lower(Strip(args.m["query"].s))) }
       IN  matching = {}
           => /\ ~result.success
              /\ result.error_code = CodeName("NO_MATCH_FOUND")
              /\ \A k \in 1..Len(sent) : sent[k].method # "Player.Open"

\* no video of the three matches "zzz": one request was sent, the listing
C18_Witness ==
    /\ pc = "done" /\ server = "client" /\ tool = "find_best_match_and_play"
    /\ args.m["auto_play"].b /\ args.m["query"].s = << "z","z","z" >>
    /\ outs # <<>> /\ outs[1].st = "ret" /\ outs[1].resp.success
    /\ outs[1].resp.data.files = Catalogue
    /\ result.error_code = CodeName("NO_MATCH_FOUND")
    /\ Len(sent) = 1 /\ sent[1].method = "Files.GetDirectory"

\* C19: on success, all_matches of find_best_match_and_play is the first
\* min(5, total_found) entries of the matches sorted by relevance score in
\* non-increasing order, entries of equal score keeping the order of the search
\* step, and best_match is its first entry; for the listing
\* [Avengers.Endgame.1080p.mkv, avengers_sample.mp4, The.Matrix.720p.mkv] and
\* the query "avengers", Avengers.Endgame.1080p.mkv is ranked above
\* avengers_sample.mp4.
C19_AllMatchesSortedStable ==
    (pc = "done" /\ server = "client" /\ tool = "find_best_match_and_play"
        /\ result.success)
    => LET upstream == outs[1].resp.data.files
           query == args.m["query"].s
           n == Len(upstream)
           videos == { k \in 1..n :
                         upstream[k].filetype = "file" /\ IsVideoPath(upstream[k].file) }
           listed == { k \in videos : Cardinality({ i \in videos : i <= k }) <= 100 }
           matches == { k \in listed :
                          Contains(Lower(upstream[k].file), Lower(Strip(query))) }
           score == SubSeq([k \in 1..n |->
                              IF k \in matches
                              THEN calculate_match_score(LastComponent(upstream[k].file), query)
                              ELSE 0], 1, n)
           ahead == SubSeq([k \in 1..n |->
                              Cardinality({ i \in matches :
                                              \/ score[i] > score[k]
                                              \/ score[i] = score[k] /\ i < k })], 1, n)
           all_matches == result.data.all_matches
           total_found == result.data.total_found
       IN  /\ total_found = Cardinality(matches)
           /\ Len(all_matches) = (IF total_found < 5 THEN total_found ELSE 5)
           /\ \A p \in 1..Len(all_matches) :
                 \E k \in matches :
                    /\ ahead[k] = p - 1
                    /\ all_matches[p].path = upstream[k].file
                    /\ all_matches[p].relevance_score = score[k]
           /\ \A p \in 1..Len(all_matches) : \A q \in p..Len(all_matches) :
                 all_matches[p].relevance_score >= all_matches[q].relevance_score
           /\ result.data.best_match = all_matches[1]
           /\ (upstream = Catalogue /\ query = << "a","v","e","n","g","e","r","s" >>)
                 => /\ all_matches[1].name = << "A","v","e","n","g","e","r","s",".","E","n","d","g","a","m","e",".","1","0","8","0","p",".","m","k","v" >>
                    /\ all_matches[2].name = << "a","v","e","n","g","e","r","s","_","s","a","m","p","l","e",".","m","p","4" >>

\* six videos match "mkv", the first five with one score and the sixth with a
\* higher one: the sixth comes first, then the first four in their order
C19_Witness ==
    /\ pc = "done" /\ server = "client" /\ tool = "find_best_match_and_play"
    /\ result.success /\ args.m["query"].s = << "m","k","v" >>
    /\ outs[1].resp.data.files = CatalogueLong
    /\ result.data.total_found = 6 /\ Len(result.data.all_matches) = 5
    /\ result.data.all_matches[1].path = CatalogueLong[6].file
    /\ result.data.all_matches[2].path = CatalogueLong[1].file
    /\ result.data.all_matches[5].path = CatalogueLong[4].file
    /\ result.data.all_matches[2].relevance_score = result.data.all_matches[5].relevance_score

\* the listing and the query of the example
C19_WitnessAvengers ==
    /\ pc = "done" /\ server = "client" /\ tool = "find_best_match_and_play"
    /\ result.success /\ args.m["query"].s = << "a","v","e","n","g","e","r","s" >>
    /\ outs[1].resp.data.files = Catalogue
    /\ result.data.total_found = 2
    /\ result.data.best_match.name = << "A","v","e","n","g","e","r","s",".","E","n","d","g","a","m","e",".","1","0","8","0","p",".","m","k","v" >>
    /\ result.data.best_match.relevance_score > result.data.all_matches[2].relevance_score

\* C20: for every filename f and non-blank query q (both lowercased, q
\* trimmed), calculate_match_score(f, q) is 10 if q is a substring of f, plus 20
\* if f starts with q, plus, for each whitespace-separated word w of q, 15 if w
\* is one of f's words and 5 for each of f's words containing w, minus 10 for
\* each of sample, trailer, preview, demo occurring in f, plus 2 for each of
\* 1080p, 720p, 4k, hd, bluray, webrip occurring in f, where f's words are those
\* of f with '.', '_' and '-' replaced by spaces; the score is not clamped.
C20_ScoreFormula ==
    (pc = "done" /\ server = "client" /\ tool = "calculate_match_score"
        /\ \E k \in 1..Len(args.m["query"].s) : args.m["query"].s[k] # " ")
    => LET f == Lower(args.m["file_path"].s)
           inner == { k \in 1..Len(args.m["query"].s) : args.m["query"].s[k] # " " }
           q == Lower(SubSeq(args.m["query"].s,
                             CHOOSE k \in inner : \A i \in inner : k <= i,
                             CHOOSE k \in inner : \A i \in inner : i <= k))
           Has(text, part) ==
               \E i \in 0..(Len(text) - Len(part)) : SubSeq(text, i + 1, i + Len(part)) = part
           \* the words of a text: the maximal runs without a separator
           Words(text, seps) ==
               { w \in (1..Len(text)) \X (1..Len(text)) :
                   /\ w[1] <= w[2]
                   /\ \A i \in w[1]..w[2] : text[i] \notin seps
                   /\ w[1] = 1 \/ text[w[1] - 1] \in seps
                   /\ w[2] = Len(text) \/ text[w[2] + 1] \in seps }
           Word(text, w) == SubSeq(text, w[1], w[2])
           qwords == Words(q, { " " })
           fwords == Words(f, { " ", ".", "_", "-" })
           exact == { w \in qwords : \E v \in fwords : Word(f, v) = Word(q, w) }
           partial == { p \in qwords \X fwords : Has(Word(f, p[2]), Word(q, p[1])) }
           suspicious == { k \in { << "s","a","m","p","l","e" >>, << "t","r","a","i","l","e","r" >>, << "p","r","e","v","i","e","w" >>, << "d","e","m","o" >> } : Has(f, k) }
           quality == { k \in { << "1","0","8","0","p" >>, << "7","2","0","p" >>, << "4","k" >>, << "h","d" >>, << "b","l","u","r","a","y" >>, << "w","e","b","r","i","p" >> } : Has(f, k) }
       IN  result = (IF Has(f, q) THEN 10 ELSE 0)
                    + (IF Len(q) <= Len(f) /\ SubSeq(f, 1, Len(q)) = q THEN 20 ELSE 0)
                    + 15 * Cardinality(exact) + 5 * Cardinality(partial)
                    - 10 * Cardinality(suspicious) + 2 * Cardinality(quality)

\* a score below zero: demo-HD.avi for the query "zzz" scores 2 - 10
C20_Witness ==
    /\ pc = "done" /\ server = "client" /\ tool = "calculate_match_score"
    /\ args.m["file_path"].s = << "d","e","m","o","-","H","D",".","a","v","i" >>
    /\ args.m["query"].s = << "z","z","z" >>
    /\ result = 0 - 8

\* the bonus of a query word stacks over the words of the name: h.h for "h"
C20_WitnessStacked ==
    /\ pc = "done" /\ server = "client" /\ tool = "calculate_match_score"
    /\ args.m["file_path"].s = << "h", ".", "h" >>
    /\ args.m["query"].s = << "h" >>
    /\ result = 10 + 20 + 15 + 5 + 5

\* C21: when auto_play is true and at least one file matches,
\* find_best_match_and_play sends the play request for the top-ranked match
\* only, and returns success=true whether or not that request succeeds (error
\* object or connectivity failure): on failure the result carries play_status
\* "failed", the underlying error and auto_played=false; on success it carries
\* play_status "success" and auto_played=true.
C21_PlayFailureStillSucceeds ==
    (pc = "done" /\ server = "client" /\ tool = "find_best_match_and_play"
        /\ args.m["auto_play"].b /\ Strip(args.m["query"].s) # <<>>
        /\ outs # <<>> /\ outs[1].st = "ret" /\ outs[1].resp.success)
    => LET d == outs[1].resp.data
           upstream == IF d.kind = "dict" /\ d.hasFiles THEN d.files ELSE <<>>
           videos == { k \in 1..Len(upstream) :
                         upstream[k].filetype = "file" /\ IsVideoPath(upstream[k].file) }
           listed == { k \in videos : Cardinality({ i \in videos : i <= k }) <= 100 }
           matching == { k \in listed :
                           Contains(Lower(upstream[k].file), Lower(Strip(args.m["query"].s))) }
           plays == { k \in 1..Len(sent) : sent[k].method = "Player.Open" }
       IN  matching # {}
           => /\ result.success
              /\ plays = { 2 } /\ Len(outs) = 2
              /\ sent[2].marg.s = result.data.all_matches[1].path
              /\ \A p \in 1..Len(result.data.all_matches) :
                    result.data.all_matches[1].relevance_score
                        >= result.data.all_matches[p].relevance_score
              /\ IF outs[2].st = "ret" /\ outs[2].resp.success
                 THEN /\ result.data.play_status = "success"
                      /\ result.data.auto_played
                 ELSE /\ result.data.play_status = "failed"
                      /\ ~result.data.auto_played
                      /\ ~result.data.play_error.none
                      /\ outs[2].st = "ret"
                            => \E i \in 1..Len(result.data.play_error.parts) :
                                  SubSeq(result.data.play_error.parts, i,
                                         Len(result.data.play_error.parts))
                                     = ErrText(outs[2].resp.error)

\* the play request met a connectivity failure on every attempt
C21_Witness ==
    /\ pc = "done" /\ server = "client" /\ tool = "find_best_match_and_play"
    /\ args.m["auto_play"].b /\ Len(outs) = 2 /\ outs[2].st = "raise"
    /\ last.hist = << "timeout", "timeout", "timeout" >>
    /\ result.success /\ result.data.play_status = "failed" /\ ~result.data.auto_played

\* ------------------------------------------------------------------------
\* The operations of the client behind the dispatchers (Spec)
\* ------------------------------------------------------------------------
\* C22: get_now_playing, once the active-player query has returned a player,
\* returns success=true with status "playing" even if the item-metadata call or
\* the playback-properties call fails, by an upstream error object or by a
\* connectivity failure: the failed section is omitted from the combined result
\* and the operation as a whole does not fail.
C22_NowPlayingSurvivesFailures ==
    (pc = "done" /\ tool \in { "get_now_playing", "getnowplaying" }
        /\ outs # <<>> /\ outs[1].st = "ret" /\ outs[1].resp.success
        /\ outs[1].resp.data.kind = "list" /\ outs[1].resp.data.players # <<>>
        /\ outs[1].resp.data.players[1].hasId
        /\ \A k \in 2..Len(outs) : outs[k].st = "raise" \/ ~outs[k].resp.success)
    => /\ opres.st = "ret"
       /\ opres.resp.success
       /\ opres.resp.data.status = "playing"
       /\ ~opres.resp.data.hasItem
       /\ ~opres.resp.data.hasProperties

C23_WitnessCapped ==
    /\ pc = "done" /\ server = "client" /\ tool = "format_file_size"
    /\ args.m["limit"].i = 1024 /\ args.m["level"].i = 5
    /\ result = [whole |-> 1024, tenth |-> 0, decimal |-> TRUE, unit |-> "PB"]

\* ------------------------------------------------------------------------
\* The validations of the client (ClientSpec)
\* ------------------------------------------------------------------------
\* C25, as amended: set_volume with a level outside 0..100, navigate_menu with
\* a direction that is none of up, down, left, right, select, back whatever its
\* case, and scan_library with a type that is neither video nor audio whatever
\* its case, each return success=false, as a result and not as an exception,
\* and send no upstream request.
C25_ValidationSendsNothing ==
    LET level == args.m["level"].i
        direction == Lower(args.m["direction"].s)
        library_type == Lower(args.m["library_type"].s)
        invalid ==
            CASE tool = "set_volume" -> level < 0 \/ level > 100
              [] tool = "navigate_menu" ->
                    \A k \in 1..Len(NavigationDirection) : NavigationDirection[k].value # direction
              [] tool = "scan_library" ->
                    library_type \notin { << "v","i","d","e","o" >>, << "a","u","d","i","o" >> }
              [] OTHER -> FALSE
    IN  (server = "client" /\ invalid)
        => /\ pc = "done"
           /\ sent = <<>>
           /\ opres.st = "ret"
           /\ ~opres.resp.success

\* C25, as stated: the same with the library type compared as written, so
\* that "AUDIO" and "Video" are types other than video or audio.
C25_AsStated ==
    LET library_type == args.m["library_type"].s
    IN  (server = "client" /\ tool = "scan_library"
         /\ library_type \notin { << "v","i","d","e","o" >>, << "a","u","d","i","o" >> })
        => /\ pc = "done"
           /\ sent = <<>>
           /\ opres.st = "ret"
           /\ ~opres.resp.success

\* a volume of 101 was refused without a request
C25_Witness ==
    /\ pc = "done" /\ server = "client" /\ tool = "set_volume"
    /\ args.m["level"].i = 101
    /\ opres.st = "ret" /\ ~opres.resp.success /\ sent = <<>>

\* the direction "enter" and the library type "photo" were refused as well
C25_WitnessDirection ==
    /\ pc = "done" /\ server = "client" /\ tool = "navigate_menu"
    /\ args.m["direction"].s = << "e","n","t","e","r" >>
    /\ opres.st = "ret" /\ ~opres.resp.success /\ sent = <<>>

C25_WitnessLibrary ==
    /\ pc = "done" /\ server = "client" /\ tool = "scan_library"
    /\ args.m["library_type"].s = << "p","h","o","t","o" >>
    /\ opres.st = "ret" /\ ~opres.resp.success /\ sent = <<>>

C26_WitnessEpisode ==
    /\ server = "client" /\ tool = "play_episode" /\ Len(sent) = 2
    /\ args.m["episode"].i = 2
    /\ outs[1].resp.data.episodes = << Episode(2) >>
    /\ sent[2] = [method |-> "Player.Open", marg |-> MArg(102, 0, <<>>, "episodeid")]

\* episode 3 is in no listing: success=false after the one query
C26_WitnessNotFound ==
    /\ server = "client" /\ tool = "play_episode" /\ pc = "done"
    /\ args.m["episode"].i = 3
    /\ outs[1].st = "ret" /\ outs[1].resp.success /\ Len(outs[1].resp.data.episodes) = 2
    /\ Len(sent) = 1 /\ opres.st = "ret" /\ ~opres.resp.success

\* ------------------------------------------------------------------------
\* The auto_play argument of find_and_play (Spec)
\* ------------------------------------------------------------------------
\* C27: a find_and_play dispatch whose auto_play argument denotes false (the
\* boolean false, or the string "false") sends no Player.Open request and, when
\* it reports a result, reports auto_played=false; whatever the arguments, one
\* dispatch sends at most one Player.Open request.
C27_FalseAutoPlayNeverPlays ==
    LET auto_play == args.m["auto_play"]
        denotesFalse == auto_play = VBool(FALSE) \/ auto_play = VStr(<< "f","a","l","s","e" >>)
        plays == { k \in 1..Len(sent) : sent[k].method = "Player.Open" }
    IN  (server = "hybrid" /\ tool = "find_and_play" /\ args.isDict)
        => /\ Cardinality(plays) <= 1
           /\ denotesFalse
                => /\ plays = {}
                   /\ (pc = "done" /\ result.kind = "return" /\ result.success)
                        => ~result.data.auto_played

\* ------------------------------------------------------------------------
\* The listener lists (HubSpec)
\* ------------------------------------------------------------------------
\* C28: when the turn of a broadcast comes to a connection that has been
\* removed from the list meanwhile, the broadcast goes on whether the send
\* fails or not: no error leaves it, it turns to the remaining connections of
\* its copy, and the connection stays absent from the list.
C28_BroadcastSafeUnderRemoval ==
    [][(/\ task.phase = "ws_bcast" /\ task.copy # <<>>
        /\ \A k \in 1..Len(connections) : connections[k] # Head(task.copy)
        /\ task' # task)
       => /\ task'.phase = "ws_bcast"
          /\ task'.copy = Tail(task.copy)
          /\ \A k \in 1..Len(connections') : connections'[k] # Head(task.copy)]_vars

\* C29: at every time a WebSocket is in the list at most once, a listed
\* WebSocket has its handler running (one that has disconnected or failed a
\* send is absent), and a WebSocket whose handler is running and whose peer has
\* not closed is in the list; and an event is only ever sent to a WebSocket
\* whose handler is running.
C29_ListedWhileConnected ==
    /\ [](\A w \in 1..MaxWs :
            LET places == { k \in 1..Len(connections) : connections[k] = w }
            IN  /\ Cardinality(places) <= 1
                /\ places # {} => w \in handlers
                /\ (w \in handlers /\ w \in wsopen) => places # {})
    /\ [][\A w \in notified' \ notified : w \in handlers]_vars

\* ------------------------------------------------------------------------
\* The tool listing of tools/list (HubSpec)
\* ------------------------------------------------------------------------
\* C30: in the answer to tools/list every tool of the registry is listed, in
\* order, and every parameter has its declared type and every declared enum,
\* minimum and maximum, a minimum of 0 included; the required list holds
\* exactly the parameters declared required.
C30_ListingKeepsSchema ==
    (pc = "done" /\ tool = "tools/list")
    => /\ Len(result) = Len(MCP_TOOLS)
       /\ \A t \in 1..Len(MCP_TOOLS) :
            LET declared == MCP_TOOLS[t].parameters
                listed == result[t].properties
            IN  /\ result[t].name = MCP_TOOLS[t].name
                /\ Len(listed) = Len(declared)
                /\ \A k \in 1..Len(declared) :
                      /\ listed[k].name = declared[k].name
                      /\ listed[k].type = declared[k].type
                      /\ listed[k].hasEnum = declared[k].hasEnum
                      /\ declared[k].hasEnum => listed[k].enum = declared[k].enum
                      /\ listed[k].hasMinimum = declared[k].hasMinimum
                      /\ declared[k].hasMinimum => listed[k].minimum = declared[k].minimum
                      /\ listed[k].hasMaximum = declared[k].hasMaximum
                      /\ declared[k].hasMaximum => listed[k].maximum = declared[k].maximum
                /\ { result[t].required[k].name : k \in 1..Len(result[t].required) }
                     = { declared[k].name : k \in { j \in 1..Len(declared) :
                                                      declared[j].hasRequired /\ declared[j].required } }

====
